---- MODULE Spec2Model ----
(***************************************************************************)
(* Model of the cajax till ledger: the HTTP handlers of routes/caja.js     *)
(* (abrir, ajustar, cerrar) and of the transacciones router (POST /), run  *)
(* by concurrent requests against one MySQL database.                      *)
(*                                                                         *)
(* Units: every monto / saldo / total is an integer number of hundredths   *)
(* (Joi precision(2)), and so is every tasa / costo_base (the requests of  *)
(* the model carry rates of two decimals).  So monto * tasa is in 10^-4    *)
(* soles.  The request bodies are chosen away from rounding ties, where    *)
(* binary floating point and exact arithmetic round alike.                 *)
(*                                                                         *)
(* Database: the table variables hold the COMMITTED rows.  A request that  *)
(* has begun a DB transaction collects its INSERT / UPDATE statements in   *)
(* ws[p] (in statement order); Commit applies them, rollback drops them.   *)
(* SELECT ... FOR UPDATE locks the caja rows it returns until commit or    *)
(* rollback; it waits while another connection holds one of them or has    *)
(* inserted, and not yet committed, a caja row of the same usuario_id.  A  *)
(* locking read that finds no row locks no row; when the server runs with  *)
(* gap locks (REPEATABLE READ) it locks the gap instead, and an INSERT     *)
(* into that gap waits for every other holder.  Nothing in the source      *)
(* fixes the isolation level, so both servers are modelled (gap_locks).    *)
(***************************************************************************)
EXTENDS Integers, Sequences, FiniteSets, TLC

\* ------------------------------------------------------------------ bounds
\* Requests served: caja ids allocated, tills closed, transactions and
\* adjustments committed, and the requests under way.
MaxOps == 5
\* The AUTO_INCREMENT of divisas is followed up to this id.
MaxDivisaId == 5

\* ------------------------------------------------------- program constants
HOME == 1
TOLERANCIA_TASA == 10
TOLERANCIA_TOTAL == 1
UMBRAL_CLIENTE == 1000000

\* ---------------------------------------------------------------- requests
Procs == {1, 2}
NULL == <<>>
Some(x) == <<x>>

\* A request body of POST /api/transacciones that passes transaccionSchema,
\* claiming the total the client computes from monto and tasa.
Tx(tipo, monto, tasa) ==
  [tipo |-> tipo, divisa_id |-> 2, cliente_id |-> NULL, monto |-> monto, tasa |-> tasa,
   total_soles |-> (2 * monto * tasa + 100) \div 200, comision |-> 0]

\* The requests the clients send (the workload): the operators, and the request
\* bodies of abrir (aperturaSchema; saldos as Object.entries lists them),
\* transacciones (transaccionSchema) and ajustar (ajusteSchema); with them, the
\* default of the column transacciones.estado in the database they run against.
CargaGeneral ==
  [usuarios |-> {1},
   aperturas |-> { [saldos |-> << <<"PEN", 100000>>, <<"EUR", 5000>> >>,
                    descripcion_ajuste |-> Some("Apertura")] },
   txs |-> { Tx("COMPRA", 500, 305), Tx("COMPRA", 500, 315), Tx("VENTA", 300, 330) },
   ajustes |-> { [moneda |-> "USD", tipo |-> "EGRESO", monto |-> 200,
                  descripcion |-> "Faltante"] },
   estado_default |-> "COMPLETADA"]

\* A till opened with little cash and an operator who sells more than was bought.
CargaEscasez ==
  [usuarios |-> {1},
   aperturas |-> { [saldos |-> << <<"PEN", 1000>> >>, descripcion_ajuste |-> NULL] },
   txs |-> { Tx("COMPRA", 500, 305), Tx("VENTA", 700, 330) },
   ajustes |-> { [moneda |-> "PEN", tipo |-> "INGRESO", monto |-> 2000,
                  descripcion |-> "Reposicion"] },
   estado_default |-> "COMPLETADA"]

\* One till, one COMPRA and one ajuste, in a database whose transacciones.estado
\* column defaults to PENDIENTE.
CargaPendiente ==
  [usuarios |-> {1},
   aperturas |-> { [saldos |-> << <<"PEN", 100000>> >>, descripcion_ajuste |-> NULL] },
   txs |-> { Tx("COMPRA", 500, 305) },
   ajustes |-> { [moneda |-> "PEN", tipo |-> "INGRESO", monto |-> 2000, descripcion |-> "Reposicion"] },
   estado_default |-> "PENDIENTE"]

\* An operator who opens, buys USD, adjusts and closes, and an administrator who
\* creates GBP, updates the rates of USD and deletes USD.
CargaRegistro ==
  [usuarios |-> {1},
   peticiones |->
     { [kind |-> "abrir", usuario_id |-> 1,
        body |-> [saldos |-> << <<"PEN", 100000>> >>, descripcion_ajuste |-> NULL]],
       [kind |-> "tx", usuario_id |-> 1, body |-> Tx("COMPRA", 500, 305)],
       [kind |-> "ajustar", usuario_id |-> 1,
        body |-> [moneda |-> "PEN", tipo |-> "INGRESO", monto |-> 2000,
                  descripcion |-> "Reposicion"]],
       [kind |-> "cerrar", usuario_id |-> 1, body |-> NULL],
       [kind |-> "crear", usuario_id |-> 9,
        body |-> [codigo |-> "GBP", tasa_compra |-> 450, tasa_venta |-> 470]],
       [kind |-> "actualizar", usuario_id |-> 9,
        body |-> [id |-> 2, tasa_compra |-> 300, tasa_venta |-> 320]],
       [kind |-> "eliminar", usuario_id |-> 9, body |-> [id |-> 2]] },
   claves_foraneas |-> FALSE,
   estado_default |-> "COMPLETADA"]

\* A till opened with little cash whose COMPRA leaves the soles negative, and an
\* operator who pays soles in, less and more than the shortfall.
CargaIngreso ==
  [usuarios |-> {1},
   aperturas |-> { [saldos |-> << <<"PEN", 1000>> >>, descripcion_ajuste |-> NULL] },
   txs |-> { Tx("COMPRA", 500, 305) },
   ajustes |-> { [moneda |-> "PEN", tipo |-> "INGRESO", monto |-> 200,
                  descripcion |-> "Reposicion parcial"],
                 [moneda |-> "PEN", tipo |-> "INGRESO", monto |-> 2000,
                  descripcion |-> "Reposicion"] },
   estado_default |-> "COMPLETADA"]

\* Requests that put the validations of POST /api/transacciones to work: a claimed
\* total off by 0.01 and by 0.02, a rate outside the band of its direction, a total
\* above S/10,000 without and with a cliente, and bodies transaccionSchema refuses.
CargaValidacion ==
  [usuarios |-> {1},
   aperturas |-> { [saldos |-> << <<"PEN", 100000>> >>, descripcion_ajuste |-> NULL] },
   txs |-> { [Tx("COMPRA", 500, 305) EXCEPT !.total_soles = 1526],
             [Tx("COMPRA", 500, 305) EXCEPT !.total_soles = 1527],
             Tx("COMPRA", 500, 325),
             Tx("VENTA", 300, 318),
             Tx("COMPRA", 400000, 305),
             [Tx("VENTA", 400000, 325) EXCEPT !.cliente_id = Some(7)],
             Tx("COMPRA", 0, 305),
             [Tx("COMPRA", 500, 0) EXCEPT !.total_soles = 1525],
             [Tx("COMPRA", 500, 100) EXCEPT !.divisa_id = 1] },
   ajustes |-> { [moneda |-> "PEN", tipo |-> "INGRESO", monto |-> 2000, descripcion |-> "Reposicion"] },
   estado_default |-> "COMPLETADA"]

\* A COMPRA at the low end of the band and a VENTA that makes a profit on its lot and
\* a loss on the reference buy rate (run against RegistroEstrecho).
CargaPerdida ==
  [usuarios |-> {1},
   aperturas |-> { [saldos |-> << <<"PEN", 100000>> >>, descripcion_ajuste |-> NULL] },
   txs |-> { Tx("COMPRA", 500, 300), Tx("VENTA", 300, 305) },
   ajustes |-> { [moneda |-> "PEN", tipo |-> "INGRESO", monto |-> 2000, descripcion |-> "Reposicion"] },
   estado_default |-> "COMPLETADA"]

\* Two operators, with their requests listed one by one: operator 1 opens, buys,
\* sells and closes; operator 2 opens, sells and adjusts.
CargaDosUsuarios ==
  [usuarios |-> {1, 2},
   peticiones |->
     { [kind |-> "abrir", usuario_id |-> 1,
        body |-> [saldos |-> << <<"PEN", 100000>> >>, descripcion_ajuste |-> NULL]],
       [kind |-> "tx", usuario_id |-> 1, body |-> Tx("COMPRA", 500, 305)],
       [kind |-> "tx", usuario_id |-> 1, body |-> Tx("VENTA", 300, 330)],
       [kind |-> "cerrar", usuario_id |-> 1, body |-> NULL],
       [kind |-> "abrir", usuario_id |-> 2,
        body |-> [saldos |-> << <<"PEN", 50000>> >>, descripcion_ajuste |-> NULL]],
       [kind |-> "tx", usuario_id |-> 2, body |-> Tx("VENTA", 300, 330)],
       [kind |-> "ajustar", usuario_id |-> 2,
        body |-> [moneda |-> "PEN", tipo |-> "INGRESO", monto |-> 2000,
                  descripcion |-> "Reposicion"]] },
   estado_default |-> "COMPLETADA"]

\* An operator who opens with soles only, buys and sells USD, adjusts USD and closes,
\* and an administrator who deletes USD from the registry; claves_foraneas says
\* whether the tables with a divisa_id column declare it a foreign key of divisas.
CargaDivisas ==
  [usuarios |-> {1},
   peticiones |->
     { [kind |-> "abrir", usuario_id |-> 1,
        body |-> [saldos |-> << <<"PEN", 100000>> >>, descripcion_ajuste |-> NULL]],
       [kind |-> "tx", usuario_id |-> 1, body |-> Tx("COMPRA", 500, 305)],
       [kind |-> "tx", usuario_id |-> 1, body |-> Tx("VENTA", 300, 330)],
       [kind |-> "ajustar", usuario_id |-> 1,
        body |-> [moneda |-> "USD", tipo |-> "INGRESO", monto |-> 200,
                  descripcion |-> "Sobrante"]],
       [kind |-> "cerrar", usuario_id |-> 1, body |-> NULL],
       [kind |-> "eliminar", usuario_id |-> 9, body |-> [id |-> 2]] },
   claves_foraneas |-> FALSE,
   estado_default |-> "COMPLETADA"]

\* The requests of a workload: the ones it lists, or else every body for every operator.
Peticiones(c) ==
  IF "peticiones" \in DOMAIN c THEN c.peticiones
  ELSE
  UNION { { [kind |-> "abrir", usuario_id |-> u, body |-> b] : b \in c.aperturas }
          \cup { [kind |-> "tx", usuario_id |-> u, body |-> b] : b \in c.txs }
          \cup { [kind |-> "ajustar", usuario_id |-> u, body |-> b] : b \in c.ajustes }
          \cup { [kind |-> "cerrar", usuario_id |-> u, body |-> NULL] } : u \in c.usuarios }

\* ------------------------------------------------------------- arithmetic
\* Number(x.toFixed(k)): n/d rounded to the nearest integer, ties away from 0.
Round(n, d) ==
  IF n >= 0 THEN (2 * n + d) \div (2 * d) ELSE -((2 * (-n) + d) \div (2 * d))

Abs(x) == IF x < 0 THEN -x ELSE x

Min(a, b) == IF a < b THEN a ELSE b

Max(S) == CHOOSE x \in S : \A y \in S : y <= x

Ids(t) == 1..Len(t)

\* All orders in which a SELECT without ORDER BY may return the rows S.
Ordenes(S) ==
  { o \in [1..Cardinality(S) -> S] : \A i, j \in 1..Cardinality(S) : o[i] = o[j] => i = j }

VARIABLES
  carga,               \* the workload: constant along a behaviour
  gap_locks,           \* whether the server takes gap locks: constant along a behaviour
  divisas,             \* id -> [codigo, tasa_compra, tasa_venta]
  caja,                \* id -> [usuario_id, estado, utilidad_total, usuario_cierre_id,
                       \*        fecha_cierre]
  cajaAuto,            \* AUTO_INCREMENT of caja (allocated at INSERT, not at commit)
  caja_saldos,         \* rows [caja_id, divisa_id, saldo_inicial, saldo_actual]
  divisas_inventario,  \* rows [divisa_id, caja_id, monto, costo_base, disponible]; id = position
  transacciones,       \* rows; id = position
  movimientos_caja,    \* rows; id = position
  users,               \* id -> [email, rol, deleted_at]
  pc,                  \* where each request slot is in its handler
  req,                 \* the request a slot is serving
  loc,                 \* the handler's local variables
  ws,                  \* statements of the slot's open DB transaction
  bloqueo,             \* locks of the slot's DB transaction: caja ids, -usuario_id for a gap
  resp                 \* the response sent by the step just taken, if it sent one

tablas == <<carga, gap_locks, divisas, caja, cajaAuto, caja_saldos, divisas_inventario,
            transacciones, movimientos_caja, users>>
vars == <<carga, gap_locks, divisas, caja, cajaAuto, caja_saldos, divisas_inventario,
          transacciones, movimientos_caja, users, pc, req, loc, ws, bloqueo, resp>>

SinReq == [kind |-> "none"]
SinLoc == [caja_id |-> 0]
SinResp == [p |-> 0, kind |-> "none", r |-> "none", n |-> 0]

\* The users the server starts with: two administrators and a cashier.
Usuarios ==
  (1 :> [email |-> "ana@cajax", rol |-> "Admin", deleted_at |-> NULL]
   @@ 2 :> [email |-> "beto@cajax", rol |-> "Admin", deleted_at |-> NULL]
   @@ 3 :> [email |-> "caro@cajax", rol |-> "Cajero", deleted_at |-> NULL])

\* The currency registry the requests run against, and one whose USD rates are so
\* close that a VENTA inside the band can sell below cost.
Registro ==
  (1 :> [codigo |-> "PEN", tasa_compra |-> 100, tasa_venta |-> 100]
   @@ 2 :> [codigo |-> "USD", tasa_compra |-> 310, tasa_venta |-> 330]
   @@ 3 :> [codigo |-> "EUR", tasa_compra |-> 400, tasa_venta |-> 420])

RegistroEstrecho == [Registro EXCEPT ![2].tasa_venta = 315]

InitDe(c, registro) ==
  /\ carga = c
  /\ gap_locks \in BOOLEAN
  /\ divisas = registro
  /\ caja = <<>>
  /\ cajaAuto = 0
  /\ caja_saldos = <<>>
  /\ divisas_inventario = <<>>
  /\ transacciones = <<>>
  /\ movimientos_caja = <<>>
  /\ users = Usuarios
  /\ pc = [p \in Procs |-> "idle"]
  /\ req = [p \in Procs |-> SinReq]
  /\ loc = [p \in Procs |-> SinLoc]
  /\ ws = [p \in Procs |-> <<>>]
  /\ bloqueo = [p \in Procs |-> {}]
  /\ resp = SinResp

InitCon(c) == InitDe(c, Registro)

Init == InitCon(CargaGeneral)

\* ---------------------------------------------------------------- database
DB == [caja |-> caja, caja_saldos |-> caja_saldos, divisas_inventario |-> divisas_inventario,
       transacciones |-> transacciones, movimientos_caja |-> movimientos_caja,
       divisas |-> divisas]

\* UPDATE divisas_inventario SET monto = monto - ?, disponible = IF(monto - ? <= 0, FALSE, TRUE):
\* MySQL evaluates the assignments of a single-table UPDATE left to right, so the
\* monto read by IF() is the value already decremented by the first assignment.
UpdateLote(lote, montoUsado) ==
  LET montoNuevo == lote.monto - montoUsado
  IN  [lote EXCEPT !.monto = montoNuevo,
                   !.disponible = IF montoNuevo - montoUsado <= 0 THEN FALSE ELSE TRUE]

\* One statement of a DB transaction applied to the tables.
ApplyOp(db, o) ==
  CASE o.op = "INSERT caja" ->
         [db EXCEPT !.caja = db.caja @@ (o.id :> [usuario_id |-> o.usuario_id, estado |-> "ABIERTA",
                                                   utilidad_total |-> 0, usuario_cierre_id |-> NULL,
                                                   fecha_cierre |-> NULL])]
    [] o.op = "INSERT caja_saldos" ->
         [db EXCEPT !.caja_saldos = Append(db.caja_saldos,
             [caja_id |-> o.caja_id, divisa_id |-> o.divisa_id,
              saldo_inicial |-> o.saldo_inicial, saldo_actual |-> o.saldo_actual])]
    [] o.op = "UPDATE caja_saldos delta" ->
         [db EXCEPT !.caja_saldos = [i \in Ids(db.caja_saldos) |->
             IF db.caja_saldos[i].caja_id = o.caja_id /\ db.caja_saldos[i].divisa_id = o.divisa_id
             THEN [db.caja_saldos[i] EXCEPT !.saldo_actual = @ + o.delta]
             ELSE db.caja_saldos[i]]]
    [] o.op = "UPDATE caja_saldos set" ->
         [db EXCEPT !.caja_saldos = [i \in Ids(db.caja_saldos) |->
             IF db.caja_saldos[i].caja_id = o.caja_id /\ db.caja_saldos[i].divisa_id = o.divisa_id
             THEN [db.caja_saldos[i] EXCEPT !.saldo_actual = o.saldo_actual]
             ELSE db.caja_saldos[i]]]
    [] o.op = "UPDATE divisas_inventario" ->
         [db EXCEPT !.divisas_inventario[o.id] = UpdateLote(@, o.montoUsado)]
    [] o.op = "INSERT divisas_inventario" ->
         [db EXCEPT !.divisas_inventario = Append(db.divisas_inventario, o.row)]
    [] o.op = "INSERT transacciones" ->
         [db EXCEPT !.transacciones = Append(db.transacciones, o.row)]
    [] o.op = "INSERT movimientos_caja" ->
         \* tx: the "(Tx #id)" of the descripcion, the insertId of the transaction
         \* row this DB transaction has just inserted (0 when it names none)
         [db EXCEPT !.movimientos_caja = Append(db.movimientos_caja,
             [o.row EXCEPT !.tx = IF o.row.tx = 0 THEN 0 ELSE Len(db.transacciones)])]
    [] o.op = "UPDATE caja utilidad_total" ->
         [db EXCEPT !.caja[o.id].utilidad_total = @ + o.utilidad]
    [] o.op = "UPDATE caja CERRADA" ->
         [db EXCEPT !.caja[o.id].estado = "CERRADA",
                    !.caja[o.id].usuario_cierre_id = Some(o.usuario_id),
                    !.caja[o.id].fecha_cierre = Some("NOW()")]
    [] o.op = "DELETE divisas" ->
         \* with the row of divisas_costos, deleted by the statement before it
         [db EXCEPT !.divisas = [d \in DOMAIN db.divisas \ {o.id} |-> db.divisas[d]]]
    [] o.op = "UPDATE divisas" ->
         [db EXCEPT !.divisas = [d \in DOMAIN db.divisas |->
             IF d = o.id THEN [db.divisas[d] EXCEPT !.tasa_compra = o.tasa_compra,
                                                    !.tasa_venta = o.tasa_venta]
             ELSE db.divisas[d]]]
    [] o.op = "INSERT divisas" ->
         \* with its row of divisas_costos, inserted by the statement after it
         [db EXCEPT !.divisas = db.divisas @@ (o.id :> [codigo |-> o.codigo,
                                                        tasa_compra |-> o.tasa_compra,
                                                        tasa_venta |-> o.tasa_venta])]

RECURSIVE ApplyAll(_, _)
ApplyAll(db, ops) == IF ops = <<>> THEN db ELSE ApplyAll(ApplyOp(db, Head(ops)), Tail(ops))

\* Mutant of CajasAbiertas: the WHERE clause without estado = 'ABIERTA'.
CajasDelUsuario(usuario_id) ==
  { id \in DOMAIN caja : caja[id].usuario_id = usuario_id }

\* SELECT id FROM caja WHERE estado = 'ABIERTA' AND usuario_id = ?
CajasAbiertas(usuario_id) ==
  { id \in DOMAIN caja : caja[id].estado = "ABIERTA" /\ caja[id].usuario_id = usuario_id }

\* Mutant of CajaAbierta: the user's latest caja, whatever its estado.
CajaMasReciente(usuario_id) ==
  IF CajasDelUsuario(usuario_id) = {} THEN {} ELSE {Max(CajasDelUsuario(usuario_id))}

\* ... ORDER BY id DESC LIMIT 1 (the empty set when there is none)
CajaAbierta(usuario_id) ==
  IF CajasAbiertas(usuario_id) = {} THEN {} ELSE {Max(CajasAbiertas(usuario_id))}

\* The connections with an uncommitted INSERT INTO caja of usuario_id.
Insertando(usuario_id) ==
  { q \in Procs : \E i \in Ids(ws[q]) :
      ws[q][i].op = "INSERT caja" /\ ws[q][i].usuario_id = usuario_id }

\* Mutant of Libre: the SELECT without FOR UPDATE, which waits for nobody.
LibreSinBloqueo(p, usuario_id, S) == TRUE

\* FOR UPDATE: p can lock the rows S of usuario_id when no other connection holds
\* one of them or an uncommitted row of that usuario_id.
Libre(p, usuario_id, S) ==
  /\ \A q \in Procs \ {p} : bloqueo[q] \cap S = {}
  /\ Insertando(usuario_id) \subseteq {p}

\* The lock FOR UPDATE leaves when it found no row: the gap, on a server with gap locks.
Hueco(usuario_id) == IF gap_locks THEN {-usuario_id} ELSE {}

\* SELECT ... FROM caja_saldos WHERE caja_id = ? AND divisa_id = ?
Saldos(caja_id, divisa_id) ==
  { i \in Ids(caja_saldos) : caja_saldos[i].caja_id = caja_id /\ caja_saldos[i].divisa_id = divisa_id }

\* SELECT id FROM divisas WHERE codigo = ?
DivisaPorCodigo(codigo) == { d \in DOMAIN divisas : divisas[d].codigo = codigo }

\* Whether caja_saldos, divisas_inventario, transacciones and movimientos_caja declare
\* divisa_id a foreign key of divisas (the schema is not in the repository).
ClavesForaneas ==
  IF "claves_foraneas" \in DOMAIN carga THEN carga.claves_foraneas ELSE FALSE

\* The divisa a statement's new row refers to (0 when the statement inserts none).
DivisaReferida(o) ==
  IF o.op = "INSERT caja_saldos" THEN o.divisa_id
  ELSE IF o.op \in {"INSERT divisas_inventario", "INSERT transacciones", "INSERT movimientos_caja"}
  THEN o.row.divisa_id
  ELSE 0

\* The connections other than p with an uncommitted row that refers to divisa d, and
\* the ones with an uncommitted DELETE of it.
Refiriendo(p, d) ==
  { q \in Procs \ {p} : \E i \in Ids(ws[q]) : DivisaReferida(ws[q][i]) = d }

Eliminando(p, d) ==
  { q \in Procs \ {p} : \E i \in Ids(ws[q]) : ws[q][i].op = "DELETE divisas" /\ ws[q][i].id = d }

\* The connections other than p with an uncommitted UPDATE of the row of divisa d.
Actualizando(p, d) ==
  { q \in Procs \ {p} : \E i \in Ids(ws[q]) : ws[q][i].op = "UPDATE divisas" /\ ws[q][i].id = d }

\* With foreign keys an INSERT waits while another connection has deleted or updated
\* the parent row and not yet committed.
PadreLibre(p, stmts) ==
  ClavesForaneas => \A i \in Ids(stmts) :
                      /\ Eliminando(p, DivisaReferida(stmts[i])) = {}
                      /\ Actualizando(p, DivisaReferida(stmts[i])) = {}

\* The committed rows that refer to divisa d in the tables the DELETE handler looks at,
\* and in all the tables with a divisa_id.
EnUso(d) ==
  \/ \E i \in Ids(transacciones) : transacciones[i].divisa_id = d
  \/ \E i \in Ids(divisas_inventario) : divisas_inventario[i].divisa_id = d

Referida(d) ==
  \/ EnUso(d)
  \/ \E i \in Ids(caja_saldos) : caja_saldos[i].divisa_id = d
  \/ \E i \in Ids(movimientos_caja) : movimientos_caja[i].divisa_id = d

\* The end of a request: the response, and connection.release()
Fin(p, r) ==
  /\ pc' = [pc EXCEPT ![p] = "idle"]
  /\ req' = [req EXCEPT ![p] = SinReq]
  /\ loc' = [loc EXCEPT ![p] = SinLoc]
  /\ ws' = [ws EXCEPT ![p] = <<>>]
  /\ bloqueo' = [bloqueo EXCEPT ![p] = {}]
  /\ resp' = [p |-> p, kind |-> req[p].kind, r |-> r, n |-> Len(ws[p])]

\* Mutant of Rollback: the balance rows inserted on the way ("Inicializar saldos") stay,
\* as they would had they been inserted outside the DB transaction.
RollbackParcial(p, r) ==
  /\ Fin(p, r)
  /\ caja_saldos' = ApplyAll(DB, SelectSeq(ws[p], LAMBDA o : o.op = "INSERT caja_saldos")).caja_saldos
  /\ UNCHANGED <<users, carga, gap_locks, divisas, caja, cajaAuto, divisas_inventario,
                 transacciones, movimientos_caja>>

\* Mutant of Rollback: the handler answers and returns without connection.rollback(),
\* so the connection goes back to the pool with its transaction open.
RespuestaSinRollback(p, r) ==
  /\ pc' = [pc EXCEPT ![p] = "idle"]
  /\ req' = [req EXCEPT ![p] = SinReq]
  /\ loc' = [loc EXCEPT ![p] = SinLoc]
  /\ resp' = [p |-> p, kind |-> req[p].kind, r |-> r, n |-> Len(ws[p])]
  /\ UNCHANGED <<tablas, ws, bloqueo>>

\* await connection.rollback(); res.status(...).json(...)
Rollback(p, r) == Fin(p, r) /\ UNCHANGED tablas

\* The handler goes on to `paso` with locals l, having run stmts and locked rows.
Sigue(p, paso, l, stmts, rows) ==
  /\ PadreLibre(p, stmts)
  /\ pc' = [pc EXCEPT ![p] = paso]
  /\ loc' = [loc EXCEPT ![p] = l]
  /\ ws' = [ws EXCEPT ![p] = ws[p] \o stmts]
  /\ bloqueo' = [bloqueo EXCEPT ![p] = bloqueo[p] \cup rows]
  /\ resp' = SinResp
  /\ UNCHANGED req

\* As Sigue, for a step that writes the response r before the handler goes on.
SigueRespondiendo(p, paso, l, stmts, rows, r) ==
  /\ PadreLibre(p, stmts)
  /\ pc' = [pc EXCEPT ![p] = paso]
  /\ loc' = [loc EXCEPT ![p] = l]
  /\ ws' = [ws EXCEPT ![p] = ws[p] \o stmts]
  /\ bloqueo' = [bloqueo EXCEPT ![p] = bloqueo[p] \cup rows]
  /\ resp' = [p |-> p, kind |-> req[p].kind, r |-> r, n |-> Len(ws[p] \o stmts)]
  /\ UNCHANGED req

\* doc.on('end', () => { res.set(...); res.end(pdfData) }) ... doc.end(): cerrar has
\* written its response, the PDF, when it awaits the commit.
PdfEnviado(p) == pc[p] = "commit" /\ req[p].kind = "cerrar"

\* The movements that ajustar has committed: INGRESO / EGRESO rows without "(Tx #id)".
Ajustes == { i \in Ids(movimientos_caja) :
               movimientos_caja[i].tx = 0 /\ movimientos_caja[i].tipo # "AJUSTE" }

\* The rows of divisas that a committed request has created, updated or deleted.
DivisasCambiadas ==
  { d \in DOMAIN divisas \cup DOMAIN Registro :
      \/ d \notin DOMAIN divisas
      \/ d \notin DOMAIN Registro
      \/ <<divisas[d].tasa_compra, divisas[d].tasa_venta>>
         # <<Registro[d].tasa_compra, Registro[d].tasa_venta>> }

\* The requests served so far (MaxOps bounds them).
Servidas ==
  cajaAuto + Cardinality({ id \in DOMAIN caja : caja[id].estado = "CERRADA" })
  + Len(transacciones) + Cardinality(Ajustes) + Cardinality(DivisasCambiadas)
  + Cardinality({ q \in Procs : pc[q] # "idle" /\ ~(req[q].kind = "abrir" /\ pc[q] = "commit") })

\* Mutant of TransaccionSchema: monto, tasa and total_soles without .positive().
TransaccionSchemaSinPositivos(b) ==
  /\ b.tipo \in {"COMPRA", "VENTA"}
  /\ b.divisa_id >= 2
  /\ b.cliente_id = NULL \/ b.cliente_id[1] >= 1
  /\ b.comision >= 0

\* transaccionSchema on the converted body: tipo valid('COMPRA', 'VENTA'),
\* divisa_id min(2), cliente_id min(1) or null, monto, tasa and total_soles positive,
\* comision min(0)
TransaccionSchema(b) ==
  /\ b.tipo \in {"COMPRA", "VENTA"}
  /\ b.divisa_id >= 2
  /\ b.cliente_id = NULL \/ b.cliente_id[1] >= 1
  /\ b.monto > 0 /\ b.tasa > 0 /\ b.total_soles > 0
  /\ b.comision >= 0

\* What the handler answers before it asks for a connection ("pasa" when it goes on):
\* the Joi error, or divisa_id === 1
Entrada(r) ==
  IF r.kind # "tx" THEN "pasa"
  ELSE IF ~TransaccionSchema(r.body) THEN "400 Validacion fallida"
  ELSE IF r.body.divisa_id = HOME THEN "400 No se pueden realizar transacciones con PEN"
  ELSE "pasa"

\* A request arrives: Joi validation (400 on an error), pool.getConnection(),
\* beginTransaction()
Recibir(p) ==
  /\ pc[p] = "idle"
  /\ Servidas < MaxOps
  /\ \E r \in Peticiones(carga) :
       IF Entrada(r) = "pasa"
       THEN /\ req' = [req EXCEPT ![p] = r]
            /\ pc' = [pc EXCEPT ![p] = "select"]
            /\ resp' = SinResp
       ELSE /\ resp' = [p |-> p, kind |-> r.kind, r |-> Entrada(r), n |-> 0]
            /\ UNCHANGED <<pc, req>>
  /\ UNCHANGED <<tablas, loc, ws, bloqueo>>

\* ------------------------------------------------------- POST /api/caja/abrir
\* Mutant of YaAbierta: the result of the select is not looked at.
YaAbiertaIgnorada(cajaAbierta) == FALSE

\* if (cajaAbierta.length) { rollback; 400 }
YaAbierta(cajaAbierta) == cajaAbierta # {}

\* SELECT id FROM caja WHERE estado = 'ABIERTA' AND usuario_id = ? FOR UPDATE
AbrirSelect(p) ==
  /\ pc[p] = "select" /\ req[p].kind = "abrir"
  /\ Libre(p, req[p].usuario_id, CajasAbiertas(req[p].usuario_id))
  /\ IF YaAbierta(CajasAbiertas(req[p].usuario_id))
     THEN Rollback(p, "400 Ya hay una caja abierta")
     ELSE /\ Sigue(p, "abrir_insert", SinLoc, <<>>, Hueco(req[p].usuario_id))
          /\ UNCHANGED tablas

\* for (const [codigo, saldo] of Object.entries(saldos)): one caja_saldos row per
\* supplied codigo that divisaMap knows
RECURSIVE SaldosIniciales(_, _)
SaldosIniciales(caja_id, saldos) ==
  IF saldos = <<>> THEN <<>>
  ELSE LET codigo == Head(saldos)[1]
           saldo == Head(saldos)[2]
           ds == IF DivisaPorCodigo(codigo) # {} THEN DivisaPorCodigo(codigo)
                 ELSE IF codigo = "PEN" THEN {HOME} ELSE {}
       IN  (IF ds = {} THEN <<>>
            ELSE <<[op |-> "INSERT caja_saldos", caja_id |-> caja_id, divisa_id |-> Max(ds),
                    saldo_inicial |-> saldo, saldo_actual |-> saldo]>>)
           \o SaldosIniciales(caja_id, Tail(saldos))

\* INSERT INTO caja ...; INSERT INTO caja_saldos ...; [INSERT INTO movimientos_caja 'AJUSTE']
AbrirInsert(p) ==
  /\ pc[p] = "abrir_insert"
  /\ \A q \in Procs \ {p} : -req[p].usuario_id \notin bloqueo[q]
  /\ LET id == cajaAuto + 1
         r == req[p]
     IN  /\ cajaAuto' = id
         /\ Sigue(p, "commit", [caja_id |-> id],
                  <<[op |-> "INSERT caja", id |-> id, usuario_id |-> r.usuario_id]>>
                  \o SaldosIniciales(id, r.body.saldos)
                  \o (IF r.body.descripcion_ajuste # NULL
                      THEN <<[op |-> "INSERT movimientos_caja",
                              row |-> [caja_id |-> id, tipo |-> "AJUSTE", divisa_id |-> HOME,
                                       monto |-> 0, descripcion |-> r.body.descripcion_ajuste[1],
                                       usuario_id |-> r.usuario_id, tx |-> 0]]>>
                      ELSE <<>>),
                  {})
         /\ UNCHANGED <<users, carga, gap_locks, divisas, caja, caja_saldos, divisas_inventario,
                        transacciones, movimientos_caja>>

\* ------------------------------------------------------ POST /api/transacciones
\* SELECT id FROM caja WHERE estado = "ABIERTA" AND usuario_id = ?
\*        ORDER BY id DESC LIMIT 1 FOR UPDATE
TxSelect(p) ==
  /\ pc[p] = "select" /\ req[p].kind = "tx"
  /\ Libre(p, req[p].usuario_id, CajaAbierta(req[p].usuario_id))
  /\ IF CajaAbierta(req[p].usuario_id) = {}
     THEN Rollback(p, "500 No hay caja abierta")
     ELSE /\ Sigue(p, "tx_validar", [caja_id |-> Max(CajaAbierta(req[p].usuario_id))], <<>>,
                   CajaAbierta(req[p].usuario_id))
          /\ UNCHANGED tablas

\* const totalCalculado = Number((monto * tasa).toFixed(2))
TotalCalculado(monto, tasa) == Round(monto * tasa, 100)

\* Math.abs(totalCalculado - total_soles_input) > 0.01
TotalInconsistente(totalCalculado, total_soles_input) ==
  Abs(totalCalculado - total_soles_input) > TOLERANCIA_TOTAL

\* Mutant of TotalSoles: the handler goes on with the total the client claimed.
TotalSolesDeclarado(totalCalculado, total_soles_input) == total_soles_input

\* const total_soles = totalCalculado
TotalSoles(totalCalculado, total_soles_input) == totalCalculado

\* Mutant of TasaFueraDeRango: the reference is the buy rate for both tipos.
TasaFueraDeRangoDeCompra(tipo, tasa, divisa) ==
  Abs(tasa - divisa.tasa_compra) > TOLERANCIA_TASA

\* tasaRef = tipo === 'COMPRA' ? tasa_compra : tasa_venta; Math.abs(tasa - tasaRef) > 0.1
TasaFueraDeRango(tipo, tasa, divisa) ==
  Abs(tasa - (IF tipo = "COMPRA" THEN divisa.tasa_compra ELSE divisa.tasa_venta)) > TOLERANCIA_TASA

\* Mutant of InicializarSaldos: no balance row is created.
SinInicializarSaldos(caja_id, divisa_id) == <<>>

\* for (const dId of [1, divisa_id]): SELECT ... FOR UPDATE; INSERT (..., 0, 0) if absent
InicializarSaldos(caja_id, divisa_id) ==
  LET fila(d) == IF Saldos(caja_id, d) = {}
                 THEN <<[op |-> "INSERT caja_saldos", caja_id |-> caja_id, divisa_id |-> d,
                         saldo_inicial |-> 0, saldo_actual |-> 0]>>
                 ELSE <<>>
  IN  fila(HOME) \o fila(divisa_id)

\* saldoMap[dId]: 0 for a row just inserted, Number(exists[0].saldo_actual) otherwise
SaldoMap(caja_id, dId) ==
  IF Saldos(caja_id, dId) = {} THEN 0
  ELSE caja_saldos[CHOOSE i \in Saldos(caja_id, dId) :
                     \A j \in Saldos(caja_id, dId) : i <= j].saldo_actual

\* "Validar saldos": tipo === 'COMPRA' && saldoMap[1] < total_soles, or
\* tipo === 'VENTA' && saldoMap[divisa_id] < monto
SaldoInsuficiente(tipo, saldoHome, saldoDivisa, monto, total_soles) ==
  \/ tipo = "COMPRA" /\ saldoHome < total_soles
  \/ tipo = "VENTA" /\ saldoDivisa < monto

\* Mutant of BloqueaPorSaldo: the shortfall throws instead of logging.
BloqueaPorSaldoEstricto(insuficiente) == insuficiente

\* "(ahora como advertencia, permite negativos)": on a shortfall the handler calls
\* logger.warn and goes on; it never throws.
BloqueaPorSaldo(insuficiente) == FALSE

\* Mutant of ClienteRequerido: no transaccion needs a cliente.
ClienteRequeridoNunca(total_soles, cliente_id) == FALSE

\* if (total_soles > 10000 && !cliente_id) throw
ClienteRequerido(total_soles, cliente_id) ==
  total_soles > UMBRAL_CLIENTE /\ cliente_id = NULL

\* divisa lookup, "Validar tasa", "Validar total_soles", "Inicializar y obtener saldos",
\* "Validar saldos", cliente requerido
TxValidar(p) ==
  /\ pc[p] = "tx_validar"
  /\ LET r == req[p].body
         totalCalculado == TotalCalculado(r.monto, r.tasa)
         total == TotalSoles(totalCalculado, r.total_soles)
     IN  IF r.divisa_id \notin DOMAIN divisas
         THEN Rollback(p, "500 Divisa no encontrada")
         ELSE IF TasaFueraDeRango(r.tipo, r.tasa, divisas[r.divisa_id])
         THEN Rollback(p, "500 Tasa fuera de rango")
         ELSE IF TotalInconsistente(totalCalculado, r.total_soles)
         THEN Rollback(p, "500 Total soles inconsistente")
         ELSE IF BloqueaPorSaldo(SaldoInsuficiente(r.tipo, SaldoMap(loc[p].caja_id, HOME),
                                                   SaldoMap(loc[p].caja_id, r.divisa_id),
                                                   r.monto, total))
         THEN Rollback(p, "500 Saldo insuficiente")
         ELSE IF ClienteRequerido(total, r.cliente_id)
         THEN Rollback(p, "500 Cliente requerido")
         ELSE /\ Sigue(p, "tx_calcular",
                       [caja_id |-> loc[p].caja_id, total_soles |-> total,
                        tasa_compra |-> divisas[r.divisa_id].tasa_compra],
                       InicializarSaldos(loc[p].caja_id, r.divisa_id), {})
              /\ UNCHANGED tablas

\* Mutant of LotesDisponibles: the WHERE clause without caja_id = ?.
LotesDeCualquierCaja(divisa_id, caja_id) ==
  { i \in Ids(divisas_inventario) :
      /\ divisas_inventario[i].divisa_id = divisa_id
      /\ divisas_inventario[i].disponible }

\* SELECT id, monto, costo_base FROM divisas_inventario
\*  WHERE divisa_id = ? AND caja_id = ? AND disponible = TRUE     (no ORDER BY)
LotesDisponibles(divisa_id, caja_id) ==
  { i \in Ids(divisas_inventario) :
      /\ divisas_inventario[i].divisa_id = divisa_id
      /\ divisas_inventario[i].caja_id = caja_id
      /\ divisas_inventario[i].disponible }

\* lotes.reduce((sum, lote) => sum + Number(lote.monto), 0)
RECURSIVE SumaMonto(_)
SumaMonto(lotes) ==
  IF lotes = <<>> THEN 0 ELSE divisas_inventario[Head(lotes)].monto + SumaMonto(Tail(lotes))

\* lotes.reduce((sum, lote) => sum + Number(lote.monto) * Number(lote.costo_base), 0)
RECURSIVE SumaCosto(_)
SumaCosto(lotes) ==
  IF lotes = <<>> THEN 0
  ELSE divisas_inventario[Head(lotes)].monto * divisas_inventario[Head(lotes)].costo_base
       + SumaCosto(Tail(lotes))

\* Mutant of CostoTotal: without covering lots costoTotal keeps its initial 0
\* (the else branches missing).
CostoTotalSinRespaldo(lotes, monto, tasa_compra) ==
  IF lotes # <<>> /\ SumaMonto(lotes) >= monto
  THEN [num |-> monto * SumaCosto(lotes), den |-> SumaMonto(lotes)]
  ELSE [num |-> 0, den |-> 1]

\* costoTotal of a VENTA as the fraction num / den (10^-4 soles):
\* monto * (sum(monto_i * costo_base_i) / totalMonto) when the lots cover monto,
\* monto * tasa_compra otherwise.
CostoTotal(lotes, monto, tasa_compra) ==
  IF lotes # <<>> /\ SumaMonto(lotes) >= monto
  THEN [num |-> monto * SumaCosto(lotes), den |-> SumaMonto(lotes)]
  ELSE [num |-> monto * tasa_compra, den |-> 1]

\* for (const lote of lotes) { if (montoRestante <= 0) break; montoUsado = min(...); UPDATE ... }
RECURSIVE Consumir(_, _)
Consumir(lotes, montoRestante) ==
  IF lotes = <<>> \/ montoRestante <= 0 THEN <<>>
  ELSE LET montoUsado == Min(montoRestante, divisas_inventario[Head(lotes)].monto)
       IN  <<[op |-> "UPDATE divisas_inventario", id |-> Head(lotes), montoUsado |-> montoUsado]>>
           \o Consumir(Tail(lotes), montoRestante - montoUsado)

\* The UPDATE statements of a VENTA: only when the lots cover the whole monto.
ConsumoVenta(lotes, monto) ==
  IF lotes # <<>> /\ SumaMonto(lotes) >= monto THEN Consumir(lotes, monto) ELSE <<>>

\* utilidad = Number((total_soles - costoTotal).toFixed(2))
Utilidad(total_soles, costo) ==
  Round(total_soles * 100 * costo.den - costo.num, 100 * costo.den)

\* The column defaults of the schema: disponible of a new lot, estado of a new transaction.
DisponibleDefault == TRUE

EstadoDefault == carga.estado_default

\* Mutant of NuevoLote: monto and tasa bound to each other's column.
NuevoLoteCruzado(divisa_id, caja_id, monto, tasa) ==
  <<[op |-> "INSERT divisas_inventario",
     row |-> [divisa_id |-> divisa_id, caja_id |-> caja_id, monto |-> tasa,
              costo_base |-> monto, disponible |-> DisponibleDefault]]>>

\* Mutant of NuevoLote: a COMPRA that repeats an earlier one (same caja, divisa, monto
\* and tasa) adds no lot of its own.
NuevoLoteUnaVez(divisa_id, caja_id, monto, tasa) ==
  IF \E i \in Ids(transacciones) :
       /\ transacciones[i].caja_id = caja_id /\ transacciones[i].tipo = "COMPRA"
       /\ transacciones[i].divisa_id = divisa_id /\ transacciones[i].monto = monto
       /\ transacciones[i].tipo_cambio = tasa
  THEN <<>>
  ELSE <<[op |-> "INSERT divisas_inventario",
          row |-> [divisa_id |-> divisa_id, caja_id |-> caja_id, monto |-> monto,
                   costo_base |-> tasa, disponible |-> DisponibleDefault]]>>

\* INSERT INTO divisas_inventario (divisa_id, caja_id, monto, costo_base, fecha_adquisicion)
NuevoLote(divisa_id, caja_id, monto, tasa) ==
  <<[op |-> "INSERT divisas_inventario",
     row |-> [divisa_id |-> divisa_id, caja_id |-> caja_id, monto |-> monto,
              costo_base |-> tasa, disponible |-> DisponibleDefault]]>>

\* INSERT INTO transacciones (caja_id, tipo, divisa_id, cliente_id, monto, comision,
\*                            tipo_cambio, total_soles, utilidad, usuario_id, fecha)
InsertTransaccion(r, usuario_id, caja_id, total_soles, utilidad) ==
  <<[op |-> "INSERT transacciones",
     row |-> [caja_id |-> caja_id, tipo |-> r.tipo, divisa_id |-> r.divisa_id,
              cliente_id |-> r.cliente_id, monto |-> r.monto,
              comision |-> IF r.tipo = "VENTA" THEN utilidad ELSE Some(r.comision),
              tipo_cambio |-> r.tasa, total_soles |-> total_soles, utilidad |-> utilidad,
              usuario_id |-> usuario_id, estado |-> EstadoDefault]]>>

\* Mutant of SaldoUpdates: the foreign balance moves the same way for both tipos.
SaldoUpdatesSinSigno(tipo, divisa_id, monto, total_soles) ==
  << [divisa_id |-> HOME, delta |-> IF tipo = "COMPRA" THEN -total_soles ELSE total_soles],
     [divisa_id |-> divisa_id, delta |-> monto] >>

\* const saldoUpdates = [{1, -+total_soles}, {divisa_id, +-monto}]
SaldoUpdates(tipo, divisa_id, monto, total_soles) ==
  << [divisa_id |-> HOME, delta |-> IF tipo = "COMPRA" THEN -total_soles ELSE total_soles],
     [divisa_id |-> divisa_id, delta |-> IF tipo = "COMPRA" THEN monto ELSE -monto] >>

\* Mutant of UpdateSaldos: every delta lands on the currency of the first entry
\* (the loop variable divisa_id read from the wrong scope).
UpdateSaldosMismaDivisa(caja_id, updates) ==
  [i \in 1..Len(updates) |->
     [op |-> "UPDATE caja_saldos delta", caja_id |-> caja_id,
      divisa_id |-> updates[1].divisa_id, delta |-> updates[i].delta]]

\* UPDATE caja_saldos SET saldo_actual = saldo_actual + ? WHERE caja_id = ? AND divisa_id = ?
UpdateSaldos(caja_id, updates) ==
  [i \in 1..Len(updates) |->
     [op |-> "UPDATE caja_saldos delta", caja_id |-> caja_id,
      divisa_id |-> updates[i].divisa_id, delta |-> updates[i].delta]]

\* Mutant of Movimientos: the third movement is an INGRESO whatever the sign.
MovimientosSinPerdida(tipo, divisa_id, monto, total_soles, utilidad) ==
  << [tipo |-> IF tipo = "COMPRA" THEN "EGRESO" ELSE "INGRESO", divisa_id |-> HOME,
      monto |-> total_soles,
      descripcion |-> IF tipo = "COMPRA" THEN "Pago cliente" ELSE "Recibido cliente"],
     [tipo |-> IF tipo = "COMPRA" THEN "INGRESO" ELSE "EGRESO", divisa_id |-> divisa_id,
      monto |-> monto,
      descripcion |-> IF tipo = "COMPRA" THEN "Recibido" ELSE "Entregado"] >>
  \o (IF tipo = "VENTA" /\ utilidad # NULL
      THEN <<[tipo |-> "INGRESO", divisa_id |-> HOME, monto |-> Abs(utilidad[1]),
              descripcion |-> "Utilidad"]>>
      ELSE <<>>)

\* const movimientos = [...]; if (tipo === 'VENTA' && utilidad !== null) movimientos.push(...)
Movimientos(tipo, divisa_id, monto, total_soles, utilidad) ==
  << [tipo |-> IF tipo = "COMPRA" THEN "EGRESO" ELSE "INGRESO", divisa_id |-> HOME,
      monto |-> total_soles,
      descripcion |-> IF tipo = "COMPRA" THEN "Pago cliente" ELSE "Recibido cliente"],
     [tipo |-> IF tipo = "COMPRA" THEN "INGRESO" ELSE "EGRESO", divisa_id |-> divisa_id,
      monto |-> monto,
      descripcion |-> IF tipo = "COMPRA" THEN "Recibido" ELSE "Entregado"] >>
  \o (IF tipo = "VENTA" /\ utilidad # NULL
      THEN <<[tipo |-> IF utilidad[1] >= 0 THEN "INGRESO" ELSE "EGRESO", divisa_id |-> HOME,
              monto |-> Abs(utilidad[1]),
              descripcion |-> IF utilidad[1] >= 0 THEN "Utilidad" ELSE "Perdida"]>>
      ELSE <<>>)

\* INSERT INTO movimientos_caja (caja_id, tipo, divisa_id, monto, descripcion, usuario_id, fecha)
InsertMovimientos(caja_id, usuario_id, movs) ==
  [i \in 1..Len(movs) |->
     [op |-> "INSERT movimientos_caja",
      row |-> [caja_id |-> caja_id, tipo |-> movs[i].tipo, divisa_id |-> movs[i].divisa_id,
               monto |-> movs[i].monto, descripcion |-> movs[i].descripcion,
               usuario_id |-> usuario_id, tx |-> 1]]]

\* Mutant of UpdateUtilidadTotal: a loss (utilidad < 0) or a zero profit is added, a
\* profit is not ("if (utilidad > 0) return" misplaced).
UpdateUtilidadTotalSoloPerdida(tipo, caja_id, utilidad) ==
  IF tipo = "VENTA" /\ utilidad # NULL /\ utilidad[1] <= 0
  THEN <<[op |-> "UPDATE caja utilidad_total", id |-> caja_id, utilidad |-> utilidad[1]]>>
  ELSE <<>>

\* if (tipo === 'VENTA' && utilidad !== null) UPDATE caja SET utilidad_total = utilidad_total + ?
UpdateUtilidadTotal(tipo, caja_id, utilidad) ==
  IF tipo = "VENTA" /\ utilidad # NULL
  THEN <<[op |-> "UPDATE caja utilidad_total", id |-> caja_id, utilidad |-> utilidad[1]]>>
  ELSE <<>>

\* "Calcular utilidad" ... "Actualizar utilidad total": the statements of one COMPRA / VENTA
TxCalcular(p) ==
  /\ pc[p] = "tx_calcular"
  /\ UNCHANGED tablas
  /\ LET r == req[p].body
         caja_id == loc[p].caja_id
         total_soles == loc[p].total_soles
     IN  \E lotes \in Ordenes(IF r.tipo = "VENTA" THEN LotesDisponibles(r.divisa_id, caja_id)
                              ELSE {}) :
           LET utilidad == IF r.tipo = "VENTA"
                           THEN Some(Utilidad(total_soles,
                                   CostoTotal(lotes, r.monto, loc[p].tasa_compra)))
                           ELSE NULL
           IN  Sigue(p, "commit", loc[p],
                 (IF r.tipo = "VENTA" THEN ConsumoVenta(lotes, r.monto)
                  ELSE NuevoLote(r.divisa_id, caja_id, r.monto, r.tasa))
                 \o InsertTransaccion(r, req[p].usuario_id, caja_id, total_soles, utilidad)
                 \o UpdateSaldos(caja_id, SaldoUpdates(r.tipo, r.divisa_id, r.monto, total_soles))
                 \o InsertMovimientos(caja_id, req[p].usuario_id,
                      Movimientos(r.tipo, r.divisa_id, r.monto, total_soles, utilidad))
                 \o UpdateUtilidadTotal(r.tipo, caja_id, utilidad),
                 {})

\* ----------------------------------------------------- POST /api/caja/ajustar
\* Mutant of AjustarSelect: the SELECT without FOR UPDATE, which neither waits for the
\* lock of the caja nor takes it.
AjustarSelectSinBloqueo(p) ==
  /\ pc[p] = "select" /\ req[p].kind = "ajustar"
  /\ IF CajaAbierta(req[p].usuario_id) = {}
     THEN Rollback(p, "404 No hay caja abierta para ajustar")
     ELSE /\ Sigue(p, "ajustar_aplicar", [caja_id |-> Max(CajaAbierta(req[p].usuario_id))], <<>>, {})
          /\ UNCHANGED tablas

\* SELECT id FROM caja WHERE estado = 'ABIERTA' AND usuario_id = ?
\*        ORDER BY id DESC LIMIT 1 FOR UPDATE
AjustarSelect(p) ==
  /\ pc[p] = "select" /\ req[p].kind = "ajustar"
  /\ Libre(p, req[p].usuario_id, CajaAbierta(req[p].usuario_id))
  /\ IF CajaAbierta(req[p].usuario_id) = {}
     THEN Rollback(p, "404 No hay caja abierta para ajustar")
     ELSE /\ Sigue(p, "ajustar_aplicar", [caja_id |-> Max(CajaAbierta(req[p].usuario_id))], <<>>,
                   CajaAbierta(req[p].usuario_id))
          /\ UNCHANGED tablas

\* const saldo_actual = Number(saldo[0]?.saldo_actual || 0)
SaldoActual(caja_id, divisa_id) ==
  IF Saldos(caja_id, divisa_id) = {} THEN 0
  ELSE caja_saldos[CHOOSE i \in Saldos(caja_id, divisa_id) :
                     \A j \in Saldos(caja_id, divisa_id) : i <= j].saldo_actual

\* const nuevo_saldo = tipo === 'INGRESO' ? saldo_actual + monto : saldo_actual - monto
NuevoSaldo(tipo, saldo_actual, monto) ==
  IF tipo = "INGRESO" THEN saldo_actual + monto ELSE saldo_actual - monto

\* Mutant of SaldoNegativo: the check is gone.
SaldoNegativoIgnorado(nuevo_saldo) == FALSE

\* if (nuevo_saldo < 0) { rollback; 400 }
SaldoNegativo(nuevo_saldo) == nuevo_saldo < 0

\* Mutant of AjusteStmts: the row an ajuste creates opens at the adjusted balance.
AjusteStmtsConInicial(caja_id, divisa_id, usuario_id, b, nuevo_saldo) ==
  (IF Saldos(caja_id, divisa_id) # {}
   THEN <<[op |-> "UPDATE caja_saldos set", caja_id |-> caja_id, divisa_id |-> divisa_id,
           saldo_actual |-> nuevo_saldo]>>
   ELSE <<[op |-> "INSERT caja_saldos", caja_id |-> caja_id, divisa_id |-> divisa_id,
           saldo_inicial |-> nuevo_saldo, saldo_actual |-> nuevo_saldo]>>)
  \o <<[op |-> "INSERT movimientos_caja",
        row |-> [caja_id |-> caja_id, tipo |-> b.tipo, divisa_id |-> divisa_id,
                 monto |-> b.monto, descripcion |-> b.descripcion,
                 usuario_id |-> usuario_id, tx |-> 0]]>>

\* UPDATE caja_saldos SET saldo_actual = ? | INSERT INTO caja_saldos (..., 0, ?);
\* INSERT INTO movimientos_caja (caja_id, tipo, ...)
AjusteStmts(caja_id, divisa_id, usuario_id, b, nuevo_saldo) ==
  (IF Saldos(caja_id, divisa_id) # {}
   THEN <<[op |-> "UPDATE caja_saldos set", caja_id |-> caja_id, divisa_id |-> divisa_id,
           saldo_actual |-> nuevo_saldo]>>
   ELSE <<[op |-> "INSERT caja_saldos", caja_id |-> caja_id, divisa_id |-> divisa_id,
           saldo_inicial |-> 0, saldo_actual |-> nuevo_saldo]>>)
  \o <<[op |-> "INSERT movimientos_caja",
        row |-> [caja_id |-> caja_id, tipo |-> b.tipo, divisa_id |-> divisa_id,
                 monto |-> b.monto, descripcion |-> b.descripcion,
                 usuario_id |-> usuario_id, tx |-> 0]]>>

\* divisa lookup, "Verificar saldo actual", UPDATE or INSERT, movimiento
AjustarAplicar(p) ==
  /\ pc[p] = "ajustar_aplicar"
  /\ LET b == req[p].body
         caja_id == loc[p].caja_id
     IN  IF DivisaPorCodigo(b.moneda) = {}
         THEN Rollback(p, "400 Moneda no encontrada")
         ELSE LET divisa_id == Max(DivisaPorCodigo(b.moneda))
                  nuevo_saldo == NuevoSaldo(b.tipo, SaldoActual(caja_id, divisa_id), b.monto)
              IN  IF SaldoNegativo(nuevo_saldo)
                  THEN Rollback(p, "400 El ajuste resultaria en saldo negativo")
                  ELSE /\ Sigue(p, "commit", loc[p],
                                AjusteStmts(caja_id, divisa_id, req[p].usuario_id, b, nuevo_saldo),
                                {})
                       /\ UNCHANGED tablas

\* ------------------------------------------------------ POST /api/caja/cerrar
\* SELECT id FROM caja WHERE estado = 'ABIERTA' AND usuario_id = ?
\*        ORDER BY id DESC LIMIT 1 FOR UPDATE
CerrarSelect(p) ==
  /\ pc[p] = "select" /\ req[p].kind = "cerrar"
  /\ Libre(p, req[p].usuario_id, CajaAbierta(req[p].usuario_id))
  /\ IF CajaAbierta(req[p].usuario_id) = {}
     THEN Rollback(p, "404 No hay caja abierta para cerrar")
     ELSE /\ Sigue(p, "cerrar_update", [caja_id |-> Max(CajaAbierta(req[p].usuario_id))], <<>>,
                   CajaAbierta(req[p].usuario_id))
          /\ UNCHANGED tablas

\* SELECT COUNT(*) FROM transacciones WHERE caja_id = ? AND estado = 'PENDIENTE'
TransaccionesPendientes(caja_id) ==
  Cardinality({ i \in Ids(transacciones) :
                  transacciones[i].caja_id = caja_id /\ transacciones[i].estado = "PENDIENTE" })

\* Mutant of HayPendientes: the count is not looked at.
HayPendientesIgnorado(count) == FALSE

\* if (transaccionesPendientes[0].count > 0) { rollback; 400 }
HayPendientes(count) == count > 0

\* Mutant of CerrarUpdate: closing also settles the caja, zeroing its utilidad_total.
CerrarUpdateLiquidando(p) ==
  /\ pc[p] = "cerrar_update"
  /\ IF HayPendientes(TransaccionesPendientes(loc[p].caja_id))
     THEN Rollback(p, "400 No se puede cerrar la caja con transacciones pendientes")
     ELSE /\ SigueRespondiendo(p, "commit", loc[p],
                   <<[op |-> "UPDATE caja CERRADA", id |-> loc[p].caja_id,
                      usuario_id |-> req[p].usuario_id],
                     [op |-> "UPDATE caja utilidad_total", id |-> loc[p].caja_id,
                      utilidad |-> -caja[loc[p].caja_id].utilidad_total]>>, {}, "200")
          /\ UNCHANGED tablas

\* pending gate; UPDATE caja SET estado = 'CERRADA', fecha_cierre = NOW(),
\* usuario_cierre_id = ? WHERE id = ?; getCajaWithSaldos; the PDF, ended (and with it
\* the response written) before the commit is awaited
CerrarUpdate(p) ==
  /\ pc[p] = "cerrar_update"
  /\ IF HayPendientes(TransaccionesPendientes(loc[p].caja_id))
     THEN Rollback(p, "400 No se puede cerrar la caja con transacciones pendientes")
     ELSE /\ SigueRespondiendo(p, "commit", loc[p],
                   <<[op |-> "UPDATE caja CERRADA", id |-> loc[p].caja_id,
                      usuario_id |-> req[p].usuario_id]>>, {}, "200")
          /\ UNCHANGED tablas

\* ------------------------------------------------------------ commit / error
\* Mutant of Commit: closing a caja archives it, purging its movements.
CommitArchivando(p) ==
  /\ pc[p] = "commit"
  /\ LET db == ApplyAll(DB, ws[p])
     IN  /\ caja' = db.caja
         /\ caja_saldos' = db.caja_saldos
         /\ divisas_inventario' = db.divisas_inventario
         /\ transacciones' = db.transacciones
         /\ movimientos_caja' =
              IF req[p].kind = "cerrar"
              THEN SelectSeq(db.movimientos_caja, LAMBDA m : m.caja_id # loc[p].caja_id)
              ELSE db.movimientos_caja
         /\ divisas' = db.divisas
  /\ UNCHANGED <<carga, gap_locks, cajaAuto, users>>
  /\ Fin(p, IF PdfEnviado(p) THEN "ninguna" ELSE "200")

\* await connection.commit(); the success response (none for cerrar, whose response
\* has been written)
Commit(p) ==
  /\ pc[p] = "commit"
  /\ LET db == ApplyAll(DB, ws[p])
     IN  /\ caja' = db.caja
         /\ caja_saldos' = db.caja_saldos
         /\ divisas_inventario' = db.divisas_inventario
         /\ transacciones' = db.transacciones
         /\ movimientos_caja' = db.movimientos_caja
         /\ divisas' = db.divisas
  /\ UNCHANGED <<carga, gap_locks, cajaAuto, users>>
  /\ Fin(p, IF PdfEnviado(p) THEN "ninguna" ELSE "200")

\* An awaited query of a handler rejects (connection lost, lock wait timeout, deadlock
\* victim): catch (err) { await connection.rollback(); res.status(500) } finally { release };
\* when the response has been written, res.status(500).json() throws and sends nothing
Falla(p) ==
  /\ pc[p] # "idle"
  /\ Rollback(p, IF PdfEnviado(p) THEN "ninguna" ELSE "500 error")

Next ==
  \E p \in Procs :
    \/ Recibir(p)
    \/ AbrirSelect(p)
    \/ AbrirInsert(p)
    \/ TxSelect(p)
    \/ TxValidar(p)
    \/ TxCalcular(p)
    \/ AjustarSelect(p)
    \/ AjustarAplicar(p)
    \/ CerrarSelect(p)
    \/ CerrarUpdate(p)
    \/ Commit(p)
    \/ Falla(p)

Spec == Init /\ [][Next]_vars

\* ------------------------------------------------- DELETE /api/divisas/:id
\* SELECT 1 FROM transacciones WHERE divisa_id = ?; SELECT 1 FROM divisas_inventario
\* WHERE divisa_id = ?: two plain reads of one snapshot
EliminarVerificar(p) ==
  /\ pc[p] = "select" /\ req[p].kind = "eliminar"
  /\ IF \E i \in Ids(transacciones) : transacciones[i].divisa_id = req[p].body.id
     THEN Rollback(p, "400 No se puede eliminar una divisa con transacciones asociadas")
     ELSE IF \E i \in Ids(divisas_inventario) : divisas_inventario[i].divisa_id = req[p].body.id
     THEN Rollback(p, "400 No se puede eliminar una divisa con inventario asociado")
     ELSE /\ Sigue(p, "eliminar_borrar", SinLoc, <<>>, {})
          /\ UNCHANGED tablas

\* DELETE FROM divisas_costos WHERE divisa_id = ?; DELETE FROM divisas WHERE id = ?
\* (affectedRows === 0 -> 404). The DELETE waits for a connection that has deleted or
\* updated the row and not committed; with foreign keys it also waits for the
\* connections with uncommitted rows that refer to the divisa, and fails (500) if a
\* row refers to it.
EliminarBorrar(p) ==
  /\ pc[p] = "eliminar_borrar"
  /\ Eliminando(p, req[p].body.id) = {} /\ Actualizando(p, req[p].body.id) = {}
  /\ ClavesForaneas => Refiriendo(p, req[p].body.id) = {}
  /\ IF ClavesForaneas /\ Referida(req[p].body.id)
     THEN Rollback(p, "500 Error al eliminar divisa")
     ELSE IF req[p].body.id \notin DOMAIN divisas
     THEN Rollback(p, "404 Divisa no encontrada")
     ELSE /\ Sigue(p, "commit", SinLoc, <<[op |-> "DELETE divisas", id |-> req[p].body.id]>>, {})
          /\ UNCHANGED tablas

\* The server with the currency registry's DELETE among its routes.
NextDivisas ==
  \/ Next
  \/ \E p \in Procs : EliminarVerificar(p)
  \/ \E p \in Procs : EliminarBorrar(p)

InitDivisas ==
  \E fk \in BOOLEAN : InitDe([CargaDivisas EXCEPT !.claves_foraneas = fk], Registro)

SpecDivisas == InitDivisas /\ [][NextDivisas]_vars

\* ------------------------------------------------- PUT /api/divisas/:id
\* SELECT 1 FROM divisas WHERE id = ? (404 when there is none)
ActualizarVerificar(p) ==
  /\ pc[p] = "select" /\ req[p].kind = "actualizar"
  /\ IF req[p].body.id \notin DOMAIN divisas
     THEN Rollback(p, "404 Divisa no encontrada")
     ELSE /\ Sigue(p, "actualizar_update", SinLoc, <<>>, {})
          /\ UNCHANGED tablas

\* UPDATE divisas SET tasa_compra = ?, tasa_venta = ? WHERE id = ?; the costo base;
\* affectedRows === 0 -> 404. The UPDATE waits for a connection that has deleted or
\* updated the row and not committed (with foreign keys, also for uncommitted rows
\* that refer to it). affectedRows counts the rows found or the rows changed,
\* depending on the flags of the connection.
ActualizarUpdate(p) ==
  /\ pc[p] = "actualizar_update"
  /\ Eliminando(p, req[p].body.id) = {} /\ Actualizando(p, req[p].body.id) = {}
  /\ ClavesForaneas => Refiriendo(p, req[p].body.id) = {}
  /\ \E found_rows \in BOOLEAN :
       LET b == req[p].body
           cambia == /\ b.id \in DOMAIN divisas
                     /\ <<divisas[b.id].tasa_compra, divisas[b.id].tasa_venta>>
                        # <<b.tasa_compra, b.tasa_venta>>
           affectedRows == IF b.id \notin DOMAIN divisas THEN 0
                           ELSE IF found_rows \/ cambia THEN 1 ELSE 0
       IN  IF affectedRows = 0
           THEN Rollback(p, "404 Divisa no encontrada")
           ELSE /\ Sigue(p, "commit", SinLoc,
                         <<[op |-> "UPDATE divisas", id |-> b.id,
                            tasa_compra |-> b.tasa_compra, tasa_venta |-> b.tasa_venta]>>, {})
                /\ UNCHANGED tablas

\* ------------------------------------------------- POST /api/divisas
\* SELECT 1 FROM divisas WHERE codigo = ? (400 when the codigo exists)
CrearVerificar(p) ==
  /\ pc[p] = "select" /\ req[p].kind = "crear"
  /\ IF DivisaPorCodigo(req[p].body.codigo) # {}
     THEN Rollback(p, "400 El codigo de divisa ya existe")
     ELSE /\ Sigue(p, "crear_insertar", SinLoc, <<>>, {})
          /\ UNCHANGED tablas

\* result.insertId: the AUTO_INCREMENT of divisas, as the next id above every id the
\* registry has had or a connection has inserted.
InsertIdDivisa ==
  1 + Max(DOMAIN divisas \cup DOMAIN Registro
          \cup UNION { { ws[q][i].id : i \in { j \in Ids(ws[q]) : ws[q][j].op = "INSERT divisas" } }
                       : q \in Procs })

\* INSERT INTO divisas (codigo, nombre, tasa_compra, tasa_venta);
\* INSERT INTO divisas_costos (divisa_id, costo_base_moneda)
CrearInsertar(p) ==
  /\ pc[p] = "crear_insertar"
  /\ InsertIdDivisa <= MaxDivisaId
  /\ Sigue(p, "commit", SinLoc,
           <<[op |-> "INSERT divisas", id |-> InsertIdDivisa, codigo |-> req[p].body.codigo,
              tasa_compra |-> req[p].body.tasa_compra,
              tasa_venta |-> req[p].body.tasa_venta]>>, {})
  /\ UNCHANGED tablas

\* The server with all the routes that open a DB transaction on a pooled connection.
NextRegistro ==
  \/ NextDivisas
  \/ \E p \in Procs : ActualizarVerificar(p)
  \/ \E p \in Procs : ActualizarUpdate(p)
  \/ \E p \in Procs : CrearVerificar(p)
  \/ \E p \in Procs : CrearInsertar(p)

InitRegistro ==
  \E fk \in BOOLEAN : InitDe([CargaRegistro EXCEPT !.claves_foraneas = fk], Registro)

SpecRegistro == InitRegistro /\ [][NextRegistro]_vars

\* ------------------------------------------------- GET /api/caja/utilidad
\* req.query.incluirCerradas: absent, or the string given in the URL.
ValoresQuery == {NULL, Some("false"), Some("true"), Some("")}

\* const { incluirCerradas = false } = req.query; incluirCerradas ? ... : ... --
\* every string but the empty one is truthy
IncluirCerradas(q) == q # NULL /\ q[1] # ""

RECURSIVE SumUtilidadTotal(_)
\* SUM(utilidad_total) over the cajas S
SumUtilidadTotal(S) ==
  IF S = {} THEN 0
  ELSE LET c == CHOOSE x \in S : TRUE
       IN  caja[c].utilidad_total + SumUtilidadTotal(S \ {c})

\* SELECT SUM(utilidad_total) as utilidad_total FROM caja WHERE usuario_id = ? or
\* WHERE estado = "ABIERTA" AND usuario_id = ?; Number(rows[0].utilidad_total || 0)
\* .toFixed(2), in hundredths
UtilidadConsultada(usuario_id, q) ==
  SumUtilidadTotal(IF IncluirCerradas(q) THEN CajasDelUsuario(usuario_id)
                   ELSE CajasAbiertas(usuario_id))

\* router.get('/utilidad'): one query on the pool, outside every transaction; 500 when
\* it rejects
GetUtilidad(p) ==
  /\ pc[p] = "idle"
  /\ \E u \in carga.usuarios, q \in ValoresQuery, falla \in BOOLEAN :
       resp' = IF falla
               THEN [p |-> p, kind |-> "utilidad", r |-> "500 Error obteniendo utilidad", n |-> 0]
               ELSE [p |-> p, kind |-> "utilidad", r |-> "200", n |-> 0, usuario_id |-> u,
                     incluirCerradas |-> q, utilidad |-> UtilidadConsultada(u, q)]
  /\ UNCHANGED <<tablas, pc, req, loc, ws, bloqueo>>

NextUtilidad ==
  \/ Next
  \/ \E p \in Procs : GetUtilidad(p)

SpecUtilidad == Init /\ [][NextUtilidad]_vars

\* ------------------------------------------------- /api/usuarios
\* Two administrators and a cashier who update and soft-delete users.
CargaUsuarios ==
  [usuarios |-> {1, 2, 3},
   peticiones |->
     { [kind |-> "delete_usuario", usuario_id |-> 1, body |-> [id |-> 2]],
       [kind |-> "delete_usuario", usuario_id |-> 2, body |-> [id |-> 1]],
       [kind |-> "delete_usuario", usuario_id |-> 1, body |-> [id |-> 1]],
       [kind |-> "delete_usuario", usuario_id |-> 3, body |-> [id |-> 2]],
       [kind |-> "put_usuario", usuario_id |-> 2,
        body |-> [id |-> 1, email |-> "ana@cajax", rol |-> "Cajero"]],
       [kind |-> "put_usuario", usuario_id |-> 1,
        body |-> [id |-> 2, email |-> "beto@cajax", rol |-> "Cajero"]],
       [kind |-> "put_usuario", usuario_id |-> 1,
        body |-> [id |-> 3, email |-> "ana@cajax", rol |-> "Admin"]] },
   claves_foraneas |-> FALSE,
   estado_default |-> "COMPLETADA"]

\* ... FROM users WHERE deleted_at IS NULL
Vigentes == { u \in DOMAIN users : users[u].deleted_at = NULL }

\* SELECT COUNT(*) as count FROM users WHERE rol = "Admin" AND deleted_at IS NULL
Admins == { u \in Vigentes : users[u].rol = "Admin" }

\* req.user.rol: the rol signed into the token at login, which is the rol the user
\* started with or, for a user who has logged in since, the rol of now.
RolesDelToken(u) == {Usuarios[u].rol} \cup (IF u \in Vigentes THEN {users[u].rol} ELSE {})

\* A handler of /api/usuarios goes on to its next query.
UsuarioSigue(p, paso) ==
  /\ pc' = [pc EXCEPT ![p] = paso]
  /\ resp' = SinResp
  /\ UNCHANGED <<tablas, req, loc, ws, bloqueo>>

\* A handler that runs its queries on the pool answers r without writing.
Responde(p, r) == Fin(p, r) /\ UNCHANGED tablas

\* The tables other than users.
noUsers == <<carga, gap_locks, divisas, caja, cajaAuto, caja_saldos, divisas_inventario,
             transacciones, movimientos_caja>>

\* router.put('/:id') and router.delete('/:id') up to their try block:
\* req.user.rol !== 'Admin' -> 403; userId === req.user.id -> 400 (delete)
UsuarioRecibir(p) ==
  /\ pc[p] = "idle"
  /\ \E r \in Peticiones(carga) : \E rol \in RolesDelToken(r.usuario_id) :
       IF rol # "Admin"
       THEN /\ resp' = [p |-> p, kind |-> r.kind, r |-> "403 Acceso denegado", n |-> 0]
            /\ UNCHANGED <<pc, req>>
       ELSE IF r.kind = "delete_usuario" /\ r.body.id = r.usuario_id
       THEN /\ resp' = [p |-> p, kind |-> r.kind, r |-> "400 No puedes eliminarte a ti mismo",
                        n |-> 0]
            /\ UNCHANGED <<pc, req>>
       ELSE /\ req' = [req EXCEPT ![p] = r]
            /\ pc' = [pc EXCEPT ![p] = "existing"]
            /\ resp' = SinResp
  /\ UNCHANGED <<tablas, loc, ws, bloqueo>>

\* PUT: SELECT id, rol FROM users WHERE id = ? AND deleted_at IS NULL (404 when none);
\* existing[0].rol === 'Admin' && rol !== 'Admin' decides whether the admins are counted
PutExisting(p) ==
  /\ pc[p] = "existing" /\ req[p].kind = "put_usuario"
  /\ IF req[p].body.id \notin Vigentes
     THEN Responde(p, "404 Usuario no encontrado")
     ELSE UsuarioSigue(p, IF users[req[p].body.id].rol = "Admin" /\ req[p].body.rol # "Admin"
                          THEN "admins" ELSE "emailCheck")

\* PUT: admins[0].count <= 1 -> 400
PutAdmins(p) ==
  /\ pc[p] = "admins" /\ req[p].kind = "put_usuario"
  /\ IF Cardinality(Admins) <= 1
     THEN Responde(p, "400 No puedes degradar el ultimo Admin")
     ELSE UsuarioSigue(p, "emailCheck")

\* PUT: SELECT id FROM users WHERE email = ? AND id != ? AND deleted_at IS NULL
PutEmailCheck(p) ==
  /\ pc[p] = "emailCheck"
  /\ IF \E u \in Vigentes \ {req[p].body.id} : users[u].email = req[p].body.email
     THEN Responde(p, "400 Email ya registrado")
     ELSE UsuarioSigue(p, "update")

\* PUT: UPDATE users SET nombre = ?, email = ?, whatsapp = ?, rol = ? WHERE id = ?
PutUpdate(p) ==
  /\ pc[p] = "update" /\ req[p].kind = "put_usuario"
  /\ users' = [users EXCEPT ![req[p].body.id].email = req[p].body.email,
                            ![req[p].body.id].rol = req[p].body.rol]
  /\ Fin(p, "200")
  /\ UNCHANGED noUsers

\* DELETE: SELECT id, rol FROM users WHERE id = ? AND deleted_at IS NULL (404 when none);
\* existing[0].rol === 'Admin' decides whether the admins are counted
DeleteExisting(p) ==
  /\ pc[p] = "existing" /\ req[p].kind = "delete_usuario"
  /\ IF req[p].body.id \notin Vigentes
     THEN Responde(p, "404 Usuario no encontrado")
     ELSE UsuarioSigue(p, IF users[req[p].body.id].rol = "Admin" THEN "admins" ELSE "update")

\* DELETE: admins[0].count <= 1 -> 400
DeleteAdmins(p) ==
  /\ pc[p] = "admins" /\ req[p].kind = "delete_usuario"
  /\ IF Cardinality(Admins) <= 1
     THEN Responde(p, "400 No puedes eliminar el ultimo Admin")
     ELSE UsuarioSigue(p, "update")

\* DELETE: UPDATE users SET deleted_at = NOW() WHERE id = ?
DeleteUpdate(p) ==
  /\ pc[p] = "update" /\ req[p].kind = "delete_usuario"
  /\ users' = [users EXCEPT ![req[p].body.id].deleted_at = Some("NOW()")]
  /\ Fin(p, "200")
  /\ UNCHANGED noUsers

\* A query of a handler of /api/usuarios rejects: catch (err) { res.status(500) }
UsuarioFalla(p) ==
  /\ pc[p] # "idle"
  /\ Responde(p, "500 error")

NextUsuarios ==
  \E p \in Procs :
    \/ UsuarioRecibir(p)
    \/ PutExisting(p)
    \/ PutAdmins(p)
    \/ PutEmailCheck(p)
    \/ PutUpdate(p)
    \/ DeleteExisting(p)
    \/ DeleteAdmins(p)
    \/ DeleteUpdate(p)
    \/ UsuarioFalla(p)

InitUsuarios == InitCon(CargaUsuarios)

SpecUsuarios == InitUsuarios /\ [][NextUsuarios]_vars

\* ------------------------------------------------- controllers/cajaController.js
\* Two operators who open a till through the controller, one leaving out the foreign
\* amounts, and one who closes. The controller keeps the balances in the row of caja.
CargaControlador ==
  [usuarios |-> {1, 2},
   peticiones |->
     { [kind |-> "abrirCaja", usuario_id |-> 1,
        body |-> [saldo_soles |-> Some(100000), saldo_dolares |-> NULL, saldo_euros |-> NULL]],
       [kind |-> "abrirCaja", usuario_id |-> 2,
        body |-> [saldo_soles |-> Some(50000), saldo_dolares |-> Some(10000),
                  saldo_euros |-> Some(0)]],
       [kind |-> "cerrarCaja", usuario_id |-> 1, body |-> NULL] },
   claves_foraneas |-> FALSE,
   estado_default |-> "COMPLETADA"]

\* const { saldo_soles = 0, ... } = req.body
PorDefecto(v) == IF v = NULL THEN 0 ELSE v[1]

\* SELECT * FROM caja WHERE estado = 'ABIERTA' ORDER BY fecha_apertura DESC LIMIT 1:
\* the rows LIMIT 1 can return, those with the latest fecha_apertura
UltimasAbiertas ==
  LET abiertas == { c \in DOMAIN caja : caja[c].estado = "ABIERTA" }
  IN  { c \in abiertas : \A d \in abiertas : caja[d].fecha_apertura <= caja[c].fecha_apertura }

\* NOW() of an INSERT: the second of the latest caja, or a later one.
Ahora == IF DOMAIN caja = {} THEN {1}
         ELSE LET ultima == Max({ caja[c].fecha_apertura : c \in DOMAIN caja })
              IN  {ultima, ultima + 1}

\* The controller goes on to its next query.
ControladorSigue(p, paso, l) ==
  /\ pc' = [pc EXCEPT ![p] = paso]
  /\ loc' = [loc EXCEPT ![p] = l]
  /\ resp' = SinResp
  /\ UNCHANGED <<tablas, req, ws, bloqueo>>

\* abrirCaja / cerrarCaja are called with a request.
ControladorRecibir(p) ==
  /\ pc[p] = "idle"
  /\ Servidas < MaxOps
  /\ \E r \in Peticiones(carga) :
       /\ req' = [req EXCEPT ![p] = r]
       /\ pc' = [pc EXCEPT ![p] = "rows"]
  /\ resp' = SinResp
  /\ UNCHANGED <<tablas, loc, ws, bloqueo>>

\* abrirCaja: the select; rows.length > 0 -> 400
AbrirCajaRows(p) ==
  /\ pc[p] = "rows" /\ req[p].kind = "abrirCaja"
  /\ IF UltimasAbiertas # {}
     THEN Responde(p, "400 Ya existe una caja abierta")
     ELSE ControladorSigue(p, "insert", SinLoc)

\* abrirCaja: INSERT INTO caja (id, usuario_id, saldo_soles, saldo_dolares, saldo_euros,
\* saldo_soles_inicial, saldo_dolares_inicial, saldo_euros_inicial, estado,
\* fecha_apertura) VALUES (uuidv4(), ..., 'ABIERTA', NOW()); 201. The uuid is a fresh id.
AbrirCajaInsert(p) ==
  /\ pc[p] = "insert"
  /\ \E fecha \in Ahora :
       LET b == req[p].body
       IN  caja' = caja @@ ((cajaAuto + 1) :>
                     [usuario_id |-> req[p].usuario_id,
                      saldo_soles |-> PorDefecto(b.saldo_soles),
                      saldo_dolares |-> PorDefecto(b.saldo_dolares),
                      saldo_euros |-> PorDefecto(b.saldo_euros),
                      saldo_soles_inicial |-> PorDefecto(b.saldo_soles),
                      saldo_dolares_inicial |-> PorDefecto(b.saldo_dolares),
                      saldo_euros_inicial |-> PorDefecto(b.saldo_euros),
                      estado |-> "ABIERTA", fecha_apertura |-> fecha, fecha_cierre |-> NULL])
  /\ cajaAuto' = cajaAuto + 1
  /\ Fin(p, "201")
  /\ UNCHANGED <<carga, gap_locks, divisas, caja_saldos, divisas_inventario, transacciones,
                 movimientos_caja, users>>

\* cerrarCaja: the select; rows.length === 0 -> 400; const caja = rows[0]
CerrarCajaRows(p) ==
  /\ pc[p] = "rows" /\ req[p].kind = "cerrarCaja"
  /\ IF UltimasAbiertas = {}
     THEN Responde(p, "400 No hay caja abierta para cerrar")
     ELSE \E c \in UltimasAbiertas : ControladorSigue(p, "update", [caja_id |-> c])

\* cerrarCaja: UPDATE caja SET estado = 'CERRADA', fecha_cierre = NOW() WHERE id = ?; 200
CerrarCajaUpdate(p) ==
  /\ pc[p] = "update" /\ req[p].kind = "cerrarCaja"
  /\ caja' = [caja EXCEPT ![loc[p].caja_id].estado = "CERRADA",
                          ![loc[p].caja_id].fecha_cierre = Some("NOW()")]
  /\ Fin(p, "200")
  /\ UNCHANGED <<carga, gap_locks, divisas, cajaAuto, caja_saldos, divisas_inventario,
                 transacciones, movimientos_caja, users>>

\* A query of the controller rejects: catch (err) { res.status(500) }
ControladorFalla(p) ==
  /\ pc[p] # "idle"
  /\ Responde(p, "500 error")

NextControlador ==
  \E p \in Procs :
    \/ ControladorRecibir(p)
    \/ AbrirCajaRows(p)
    \/ AbrirCajaInsert(p)
    \/ CerrarCajaRows(p)
    \/ CerrarCajaUpdate(p)
    \/ ControladorFalla(p)

InitControlador == InitCon(CargaControlador)

SpecControlador == InitControlador /\ [][NextControlador]_vars


\* The same server under the other workloads.
InitIngreso == InitCon(CargaIngreso)

SpecIngreso == InitIngreso /\ [][Next]_vars

InitEscasez == InitCon(CargaEscasez)

SpecEscasez == InitEscasez /\ [][Next]_vars

\* The same program serving the requests of CargaValidacion.
InitValidacion == InitCon(CargaValidacion)
SpecValidacion == InitValidacion /\ [][Next]_vars

\* The same program against a registry with a narrow spread.
InitPerdida == InitDe(CargaPerdida, RegistroEstrecho)
SpecPerdida == InitPerdida /\ [][Next]_vars

\* The same program serving two operators.
InitDosUsuarios == InitCon(CargaDosUsuarios)
SpecDosUsuarios == InitDosUsuarios /\ [][Next]_vars

\* The same program on a database where a new transaccion is PENDIENTE.
InitPendiente == InitCon(CargaPendiente)
SpecPendiente == InitPendiente /\ [][Next]_vars

\* ================================================================== claims
\* What the claims read off a step: the rows it appended, balances, consumption.

\* saldo_actual of (caja_id, divisa_id) in the caja_saldos table cs; 0 without a row
SaldoEn(cs, caja_id, divisa_id) ==
  LET S == { i \in Ids(cs) : cs[i].caja_id = caja_id /\ cs[i].divisa_id = divisa_id }
  IN  IF S = {} THEN 0 ELSE cs[CHOOSE i \in S : \A j \in S : i <= j].saldo_actual

\* The rows a step appended to a table.
Nuevas(antes, despues) == SubSeq(despues, Len(antes) + 1, Len(despues))

\* Net signed sum (INGRESO - EGRESO) of the movements movs in currency divisa_id
RECURSIVE Neto(_, _)
Neto(movs, divisa_id) ==
  IF movs = <<>> THEN 0
  ELSE (IF Head(movs).divisa_id # divisa_id THEN 0
        ELSE IF Head(movs).tipo = "INGRESO" THEN Head(movs).monto
        ELSE IF Head(movs).tipo = "EGRESO" THEN -Head(movs).monto
        ELSE 0)
       + Neto(Tail(movs), divisa_id)

\* Sum of utilidad over the VENTA rows of till caja_id in txs
RECURSIVE SumaUtilidad(_, _)
SumaUtilidad(txs, caja_id) ==
  IF txs = <<>> THEN 0
  ELSE (IF Head(txs).caja_id = caja_id /\ Head(txs).tipo = "VENTA" /\ Head(txs).utilidad # NULL
        THEN Head(txs).utilidad[1] ELSE 0)
       + SumaUtilidad(Tail(txs), caja_id)

\* The rows of till caja_id in a table
FilasDe(t, caja_id) == SelectSeq(t, LAMBDA f : f.caja_id = caja_id)

\* The step just taken ended a request of this kind with this outcome.
Exito(kinds) == resp'.kind \in kinds /\ resp'.r = "200"
Fracaso(kinds) == resp'.kind \in kinds /\ resp'.r # "200"

\* The step just taken committed a transaction of this tipo.
Registra(tipo) == Exito({"tx"}) /\ req[resp'.p].body.tipo = tipo

\* The lots (ids, oldest first) of the currency and till a VENTA sells from that are
\* available before it, their total, and what the step took from lot i.
LotesAntes(p) == LotesDisponibles(req[p].body.divisa_id, loc[p].caja_id)
TotalAntes(S) == SumaMonto(CHOOSE o \in Ordenes(S) : TRUE)
Consumido(i) == divisas_inventario[i].monto - divisas_inventario'[i].monto
RECURSIVE CostoConsumido(_)
CostoConsumido(n) ==
  IF n = 0 THEN 0
  ELSE Consumido(n) * divisas_inventario[n].costo_base + CostoConsumido(n - 1)
Cubierta(p) == LotesAntes(p) # {} /\ TotalAntes(LotesAntes(p)) >= req[p].body.monto
AntesQue(S, i) == { j \in S : j < i }

\* C1: in every reachable state an operator has at most one ABIERTA till, also when
\* two POST /api/caja/abrir of the same operator are processed concurrently.
C1_UnaCajaAbierta ==
  \A u \in carga.usuarios : Cardinality(CajasAbiertas(u)) <= 1

\* C2: the utilidad_total of every till equals the sum of utilidad over the committed
\* VENTA transactions of that till (0 when it has none).
C2_UtilidadTotal ==
  \A id \in DOMAIN caja : caja[id].utilidad_total = SumaUtilidad(transacciones, id)

\* C2 witness: a till with two committed VENTA and a nonzero utilidad_total.
C2_Witness ==
  \E id \in DOMAIN caja :
    /\ caja[id].utilidad_total # 0
    /\ Cardinality({ i \in Ids(transacciones) :
                       transacciones[i].caja_id = id /\ transacciones[i].tipo = "VENTA" }) >= 2

\* C3 (as stated): for every committed COMPRA, VENTA or ajuste and every currency, the
\* change of the till's balance equals the net signed sum (INGRESO - EGRESO) of the
\* movements the operation appended.
C3_SaldoIgualMovimientos ==
  [][ Exito({"tx", "ajustar"}) =>
        \A d \in DOMAIN divisas :
          SaldoEn(caja_saldos', loc[resp'.p].caja_id, d) - SaldoEn(caja_saldos, loc[resp'.p].caja_id, d)
          = Neto(Nuevas(movimientos_caja, movimientos_caja'), d) ]_vars

\* C3 (amended): the equality holds for every currency of a COMPRA and of an ajuste; for
\* a VENTA it holds for the movements other than the Utilidad / Perdida movement, and
\* with that movement counted the home movements net to the balance change plus utilidad.
C3_SaldoIgualMovimientosSinUtilidad ==
  [][ Exito({"tx", "ajustar"}) =>
        LET caja_id == loc[resp'.p].caja_id
            nuevos == Nuevas(movimientos_caja, movimientos_caja')
            deUtilidad == SelectSeq(nuevos, LAMBDA m : m.tx # 0 /\ m.descripcion \in {"Utilidad", "Perdida"})
            resto == SelectSeq(nuevos, LAMBDA m : ~(m.tx # 0 /\ m.descripcion \in {"Utilidad", "Perdida"}))
            delta(d) == SaldoEn(caja_saldos', caja_id, d) - SaldoEn(caja_saldos, caja_id, d)
        IN  /\ \A d \in DOMAIN divisas : delta(d) = Neto(resto, d)
            /\ IF resp'.kind = "tx" /\ req[resp'.p].body.tipo = "VENTA"
               THEN /\ Len(deUtilidad) = 1
                    /\ Neto(nuevos, HOME)
                       = delta(HOME) + transacciones'[Len(transacciones')].utilidad[1]
               ELSE deUtilidad = <<>> ]_vars

\* C3 witness: a VENTA with a nonzero utilidad has just been committed.
C3_Witness ==
  /\ resp.kind = "tx" /\ resp.r = "200"
  /\ transacciones[Len(transacciones)].tipo = "VENTA"
  /\ transacciones[Len(transacciones)].utilidad # Some(0)

\* C4: for a VENTA that the available lots cover, utilidad = round(total_soles -
\* monto * c, 2) where c is the average costo_base of the lots the sale consumed,
\* weighted by the amount consumed from each.
C4_CostoDeLoConsumido ==
  [][ (Registra("VENTA") /\ Cubierta(resp'.p)) =>
        LET t == transacciones'[Len(transacciones')]
        IN  t.utilidad
            = Some(Round(t.total_soles * 100 - CostoConsumido(Len(divisas_inventario)), 100)) ]_vars

\* C5: a VENTA consumes the available lots oldest first, each giving min(its amount,
\* amount still needed); no newer lot is decremented while an older available lot
\* keeps a remainder.
C5_PrimeroElMasAntiguo ==
  [][ (Registra("VENTA") /\ Cubierta(resp'.p)) =>
        LET S == LotesAntes(resp'.p)
            monto == req[resp'.p].body.monto
        IN  /\ \A i \in S :
                 Consumido(i) = Min(divisas_inventario[i].monto,
                                    IF TotalAntes(AntesQue(S, i)) >= monto THEN 0
                                    ELSE monto - TotalAntes(AntesQue(S, i)))
            /\ \A i, j \in S :
                 (i < j /\ Consumido(j) > 0) => divisas_inventario'[i].monto = 0 ]_vars

\* C6: every lot has monto >= 0 and is disponible exactly when monto > 0 (a lot partly
\* consumed stays available with its remainder).
C6_DisponibleSiiMontoPositivo ==
  \A i \in Ids(divisas_inventario) :
    /\ divisas_inventario[i].monto >= 0
    /\ divisas_inventario[i].disponible <=> divisas_inventario[i].monto > 0

\* C7: concurrent VENTA of one operator against the same lots never take more from a
\* lot than it had: no lot's monto is negative in any reachable state.
C7_LoteNoNegativo ==
  \A i \in Ids(divisas_inventario) : divisas_inventario[i].monto >= 0

\* C7 witness: a VENTA that has consumed from a lot and not yet committed, with another
\* VENTA of the same operator under way.
C7_Witness ==
  \E p, q \in Procs :
    /\ p # q
    /\ req[p].kind = "tx" /\ req[p].body.tipo = "VENTA" /\ pc[p] = "commit"
    /\ \E i \in Ids(ws[p]) : ws[p][i].op = "UPDATE divisas_inventario"
    /\ req[q].kind = "tx" /\ req[q].body.tipo = "VENTA" /\ pc[q] = "select"
    /\ req[q].usuario_id = req[p].usuario_id

\* C8: POST /api/transacciones is atomic: a request that fails leaves every table as
\* it was, no step before its commit changes a table, and its commit appends the
\* transaction row, its movements and the balance changes in one step.
C8_TransaccionAtomica ==
  [][ /\ (Fracaso({"tx"}) \/ resp'.kind = "none")
           => UNCHANGED <<caja, caja_saldos, divisas_inventario, transacciones, movimientos_caja>>
      /\ Exito({"tx"}) =>
           LET b == req[resp'.p].body
               caja_id == loc[resp'.p].caja_id
           IN  /\ Len(transacciones') = Len(transacciones) + 1
               /\ Len(movimientos_caja') >= Len(movimientos_caja) + 2
               /\ SaldoEn(caja_saldos', caja_id, b.divisa_id)
                  = SaldoEn(caja_saldos, caja_id, b.divisa_id)
                    + (IF b.tipo = "COMPRA" THEN b.monto ELSE -b.monto)
               /\ SaldoEn(caja_saldos', caja_id, HOME) # SaldoEn(caja_saldos, caja_id, HOME) ]_vars

\* C8 witness: a transaction request has just failed after running statements of its
\* DB transaction, which the rollback discarded.
C8_Witness ==
  resp.kind = "tx" /\ resp.r # "200" /\ resp.n >= 4

\* C9: a CERRADA till stays CERRADA and none of its rows (balances, lots, transactions,
\* movements, utilidad_total) changes; a transaction or ajuste is committed only against
\* a till that is ABIERTA at that moment, and one that fails changes no table.
C9_CerradaCongelada ==
  [][ /\ \A id \in DOMAIN caja :
           caja[id].estado = "CERRADA" =>
             /\ caja'[id] = caja[id]
             /\ FilasDe(caja_saldos', id) = FilasDe(caja_saldos, id)
             /\ FilasDe(divisas_inventario', id) = FilasDe(divisas_inventario, id)
             /\ FilasDe(transacciones', id) = FilasDe(transacciones, id)
             /\ FilasDe(movimientos_caja', id) = FilasDe(movimientos_caja, id)
      /\ Exito({"tx", "ajustar"}) =>
           /\ loc[resp'.p].caja_id \in DOMAIN caja
           /\ caja[loc[resp'.p].caja_id].estado = "ABIERTA"
      /\ Fracaso({"tx", "ajustar"}) =>
           UNCHANGED <<caja, caja_saldos, divisas_inventario, transacciones, movimientos_caja>> ]_vars

\* C9 witness: a transaction or ajuste is refused because the operator's only till,
\* which holds transactions, has been closed.
C9_Witness ==
  /\ resp.kind \in {"tx", "ajustar"} /\ resp.r \in {"500 No hay caja abierta", "404 No hay caja abierta para ajustar"}
  /\ \E id \in DOMAIN caja : caja[id].estado = "CERRADA" /\ FilasDe(transacciones, id) # <<>>
  /\ \A id \in DOMAIN caja : caja[id].estado = "CERRADA"

\* C10: a committed COMPRA raises the foreign balance by monto, lowers the home balance
\* by round(monto * tasa, 2), appends exactly one available lot (monto, costo_base =
\* tasa) and changes no other lot; its utilidad is NULL and no utilidad_total changes.
C10_Compra ==
  [][ Registra("COMPRA") =>
        LET b == req[resp'.p].body
            caja_id == loc[resp'.p].caja_id
        IN  /\ SaldoEn(caja_saldos', caja_id, b.divisa_id)
               = SaldoEn(caja_saldos, caja_id, b.divisa_id) + b.monto
            /\ SaldoEn(caja_saldos', caja_id, HOME)
               = SaldoEn(caja_saldos, caja_id, HOME) - Round(b.monto * b.tasa, 100)
            /\ divisas_inventario'
               = Append(divisas_inventario,
                        [divisa_id |-> b.divisa_id, caja_id |-> caja_id, monto |-> b.monto,
                         costo_base |-> b.tasa, disponible |-> TRUE])
            /\ transacciones'[Len(transacciones')].utilidad = NULL
            /\ caja' = caja ]_vars

\* C10 witness: a COMPRA has just been committed into an inventory that held a lot.
C10_Witness ==
  /\ resp.kind = "tx" /\ resp.r = "200"
  /\ transacciones[Len(transacciones)].tipo = "COMPRA"
  /\ Len(divisas_inventario) >= 2

\* C11: a committed VENTA raises the till's home balance by total_soles, lowers the
\* balance of the sold currency by monto, adds its utilidad to the till's
\* utilidad_total, and changes no other balance of any till.
C11_Venta ==
  [][ Registra("VENTA") =>
        LET b == req[resp'.p].body
            caja_id == loc[resp'.p].caja_id
            t == transacciones'[Len(transacciones')]
        IN  /\ t.total_soles = Round(b.monto * b.tasa, 100)
            /\ SaldoEn(caja_saldos', caja_id, HOME)
               = SaldoEn(caja_saldos, caja_id, HOME) + t.total_soles
            /\ SaldoEn(caja_saldos', caja_id, b.divisa_id)
               = SaldoEn(caja_saldos, caja_id, b.divisa_id) - b.monto
            /\ caja'[caja_id].utilidad_total = caja[caja_id].utilidad_total + t.utilidad[1]
            /\ \A id \in DOMAIN caja, d \in DOMAIN divisas :
                 (id # caja_id \/ d \notin {HOME, b.divisa_id}) =>
                   SaldoEn(caja_saldos', id, d) = SaldoEn(caja_saldos, id, d) ]_vars

\* C11 witness: a VENTA has just been committed in a till that holds a balance of a
\* third currency.
C11_Witness ==
  /\ resp.kind = "tx" /\ resp.r = "200"
  /\ transacciones[Len(transacciones)].tipo = "VENTA"
  /\ SaldoEn(caja_saldos, transacciones[Len(transacciones)].caja_id, 3) > 0

\* What a VENTA that the available lots do not cover would cost with the lots used up
\* and the rest at the reference buy rate (10^-4 soles).
RECURSIVE CostoDeLotes(_)
CostoDeLotes(S) ==
  IF S = {} THEN 0
  ELSE LET i == CHOOSE i \in S : TRUE
       IN  divisas_inventario[i].monto * divisas_inventario[i].costo_base + CostoDeLotes(S \ {i})
Escasa(p) == LotesAntes(p) # {} /\ TotalAntes(LotesAntes(p)) < req[p].body.monto

\* C12: a VENTA of more than the till's available lots of the currency hold, while some
\* exist, uses the lots up (each ends with monto 0) and costs sum(monto_i * costo_base_i)
\* plus the uncovered rest at the reference buy rate.
C12_InventarioEscasoMezcla ==
  [][ (Registra("VENTA") /\ Escasa(resp'.p)) =>
        LET S == LotesAntes(resp'.p)
            b == req[resp'.p].body
            t == transacciones'[Len(transacciones')]
        IN  /\ \A i \in S : divisas_inventario'[i].monto = 0
            /\ t.utilidad
               = Some(Round(t.total_soles * 100
                            - (CostoDeLotes(S)
                               + (b.monto - TotalAntes(S)) * divisas[b.divisa_id].tasa_compra),
                            100)) ]_vars

\* C13: a VENTA in a till without an available lot of the currency is not refused for
\* that: once validated it goes on to its commit (unless a query fails), and it commits
\* with cost monto * tasa_compra, utilidad = round(total_soles - that cost, 2).
C13_VentaSinLotes ==
  [][ /\ \A p \in Procs :
           (/\ pc[p] = "tx_calcular" /\ req[p].body.tipo = "VENTA" /\ LotesAntes(p) = {}
            /\ pc'[p] # pc[p])
           => (pc'[p] = "commit" \/ (resp'.p = p /\ resp'.r = "500 error"))
      /\ (Registra("VENTA") /\ LotesAntes(resp'.p) = {}) =>
           LET b == req[resp'.p].body
               t == transacciones'[Len(transacciones')]
           IN  /\ t.utilidad
                  = Some(Round(t.total_soles * 100 - b.monto * divisas[b.divisa_id].tasa_compra, 100))
               /\ divisas_inventario' = divisas_inventario ]_vars

\* C13 witness: a VENTA has just been committed in a till whose inventory was empty,
\* with a utilidad computed from the reference buy rate.
C13_Witness ==
  /\ resp.kind = "tx" /\ resp.r = "200"
  /\ divisas_inventario = <<>>
  /\ transacciones[Len(transacciones)].tipo = "VENTA"
  /\ transacciones[Len(transacciones)].utilidad # NULL
  /\ transacciones[Len(transacciones)].utilidad[1] > 0

\* A request body that passes the handler's checks of divisa, tasa, total and cliente.
Valida(r) ==
  /\ r.divisa_id \in DOMAIN divisas
  /\ ~TasaFueraDeRango(r.tipo, r.tasa, divisas[r.divisa_id])
  /\ Abs(TotalCalculado(r.monto, r.tasa) - r.total_soles) <= TOLERANCIA_TOTAL
  /\ ~(TotalCalculado(r.monto, r.tasa) > UMBRAL_CLIENTE /\ r.cliente_id = NULL)

\* The request of p has just ended without a commit, and the step changed no table.
Rechazada(p) ==
  /\ resp'.p = p /\ resp'.r # "200"
  /\ UNCHANGED <<caja, caja_saldos, divisas_inventario, transacciones, movimientos_caja>>

\* C14: a COMPRA whose total_soles exceeds the till's home balance is refused and
\* changes nothing, so every COMPRA that commits had the funds; no committed COMPRA
\* leaves the home balance negative.
C14_CompraSinFondos ==
  [][ Registra("COMPRA") =>
        /\ SaldoEn(caja_saldos, loc[resp'.p].caja_id, HOME)
           >= TotalCalculado(req[resp'.p].body.monto, req[resp'.p].body.tasa)
        /\ SaldoEn(caja_saldos', loc[resp'.p].caja_id, HOME) >= 0 ]_vars

\* C15: a VENTA of more than the till's balance of the sold currency is not refused for
\* that: a valid one goes on (unless a query fails), and its commit lowers the balance
\* by monto, below zero by the shortfall.
C15_VentaSinSaldo ==
  [][ /\ \A p \in Procs :
           (/\ pc[p] = "tx_validar" /\ req[p].body.tipo = "VENTA" /\ Valida(req[p].body)
            /\ SaldoEn(caja_saldos, loc[p].caja_id, req[p].body.divisa_id) < req[p].body.monto
            /\ pc'[p] # pc[p])
           => (pc'[p] = "tx_calcular" \/ (resp'.p = p /\ resp'.r = "500 error"))
      /\ (/\ Registra("VENTA")
          /\ SaldoEn(caja_saldos, loc[resp'.p].caja_id, req[resp'.p].body.divisa_id)
             < req[resp'.p].body.monto)
         => /\ SaldoEn(caja_saldos', loc[resp'.p].caja_id, req[resp'.p].body.divisa_id)
               = SaldoEn(caja_saldos, loc[resp'.p].caja_id, req[resp'.p].body.divisa_id)
                 - req[resp'.p].body.monto
            /\ SaldoEn(caja_saldos', loc[resp'.p].caja_id, req[resp'.p].body.divisa_id) < 0 ]_vars

\* C15 witness: a VENTA has just been committed and left the till's balance of the
\* sold currency negative.
C15_Witness ==
  /\ resp.kind = "tx" /\ resp.r = "200"
  /\ transacciones[Len(transacciones)].tipo = "VENTA"
  /\ SaldoEn(caja_saldos, transacciones[Len(transacciones)].caja_id,
             transacciones[Len(transacciones)].divisa_id) < 0

\* The signed amount of an ajuste, and the currency it names.
DeltaAjuste(b) == IF b.tipo = "INGRESO" THEN b.monto ELSE -b.monto
DivisaAjuste(b) == Max(DivisaPorCodigo(b.moneda))

\* C16: an ajuste whose resulting balance saldo_actual + delta (delta = +monto for
\* INGRESO, -monto for EGRESO) would be negative fails and leaves balances and movements
\* as they were; no committed ajuste leaves the adjusted balance negative.
C16_AjusteSinFondos ==
  [][ /\ \A p \in Procs :
           (/\ pc[p] = "ajustar_aplicar" /\ DivisaPorCodigo(req[p].body.moneda) # {}
            /\ SaldoEn(caja_saldos, loc[p].caja_id, DivisaAjuste(req[p].body))
               + DeltaAjuste(req[p].body) < 0
            /\ pc'[p] # pc[p])
           => Rechazada(p)
      /\ Exito({"ajustar"}) =>
           SaldoEn(caja_saldos', loc[resp'.p].caja_id, DivisaAjuste(req[resp'.p].body)) >= 0 ]_vars

\* C16 witness: an ajuste has just been refused because it would leave the balance
\* negative.
C16_Witness ==
  /\ resp.kind = "ajustar" /\ resp.r = "400 El ajuste resultaria en saldo negativo"
  /\ \E id \in DOMAIN caja : caja[id].estado = "ABIERTA"

\* C17: a committed ajuste changes only the balance of the locked till in the currency
\* it names, by +monto for INGRESO and -monto for EGRESO, and appends exactly one
\* movement, for that till and currency, whose reason is AJUSTE.
C17_AjusteUnMovimiento ==
  [][ Exito({"ajustar"}) =>
        LET p == resp'.p
            b == req[p].body
            caja_id == loc[p].caja_id
            divisa_id == DivisaAjuste(b)
            nuevos == Nuevas(movimientos_caja, movimientos_caja')
        IN  /\ SaldoEn(caja_saldos', caja_id, divisa_id)
                 = SaldoEn(caja_saldos, caja_id, divisa_id) + DeltaAjuste(b)
            /\ \A c \in DOMAIN caja, d \in DOMAIN divisas :
                 <<c, d>> # <<caja_id, divisa_id>>
                   => SaldoEn(caja_saldos', c, d) = SaldoEn(caja_saldos, c, d)
            /\ UNCHANGED <<caja, divisas_inventario, transacciones>>
            /\ Len(nuevos) = 1
            /\ nuevos[1].caja_id = caja_id /\ nuevos[1].divisa_id = divisa_id
            /\ nuevos[1].monto = b.monto
            /\ \/ nuevos[1].tipo = "AJUSTE"
               \/ nuevos[1].descripcion = "AJUSTE" ]_vars

\* C18: an abrir whose select finds an ABIERTA caja of the user is refused with "Ya hay
\* una caja abierta" (or ends on a failed query) and creates no caja, no caja_saldos row
\* and no movement; the caja that is open stays as it was.
C18_AbrirConCajaAbierta ==
  [][ /\ \A p \in Procs :
           (/\ pc[p] = "select" /\ req[p].kind = "abrir"
            /\ CajasAbiertas(req[p].usuario_id) # {}
            /\ pc'[p] # pc[p])
           => /\ Rechazada(p)
              /\ resp'.r \in {"400 Ya hay una caja abierta", "500 error"}
      /\ (resp'.kind = "abrir" /\ resp'.r = "400 Ya hay una caja abierta")
           => /\ UNCHANGED tablas
              /\ CajasAbiertas(req[resp'.p].usuario_id) # {} ]_vars

\* C18 witness: an abrir has just been refused while the user's caja is open.
C18_Witness ==
  /\ resp.kind = "abrir" /\ resp.r = "400 Ya hay una caja abierta"
  /\ \E id \in DOMAIN caja : caja[id].estado = "ABIERTA"

\* C19: a cerrar whose select finds no ABIERTA caja of the user is refused with "No hay
\* caja abierta para cerrar" (or ends on a failed query) and changes nothing, so a
\* cerrar that follows the one that closed the user's only caja is refused and the
\* CERRADA caja keeps its usuario_cierre_id.
C19_CerrarSinCajaAbierta ==
  [][ /\ \A p \in Procs :
           (/\ pc[p] = "select" /\ req[p].kind = "cerrar"
            /\ CajasAbiertas(req[p].usuario_id) = {}
            /\ pc'[p] # pc[p])
           => /\ Rechazada(p)
              /\ resp'.r \in {"404 No hay caja abierta para cerrar", "500 error"}
      /\ (resp'.kind = "cerrar" /\ resp'.r = "404 No hay caja abierta para cerrar")
           => /\ UNCHANGED tablas
              /\ CajasAbiertas(req[resp'.p].usuario_id) = {} ]_vars

\* C19 witness: a cerrar has just been refused after an earlier cerrar closed the caja.
C19_Witness ==
  /\ resp.kind = "cerrar" /\ resp.r = "404 No hay caja abierta para cerrar"
  /\ \E id \in DOMAIN caja : caja[id].estado = "CERRADA" /\ caja[id].usuario_cierre_id # NULL

\* C20: a cerrar that reaches the pending gate while the locked caja has a PENDIENTE
\* transaccion is refused with "No se puede cerrar la caja con transacciones
\* pendientes" (or ends on a failed query); the gate comes before the UPDATE, so
\* nothing changes and the caja is still ABIERTA with no usuario_cierre_id; no cerrar
\* commits on a caja that has a PENDIENTE transaccion.
C20_CerrarConPendientes ==
  [][ /\ \A p \in Procs :
           (/\ pc[p] = "cerrar_update"
            /\ TransaccionesPendientes(loc[p].caja_id) > 0
            /\ pc'[p] # pc[p])
           => /\ Rechazada(p)
              /\ resp'.r \in {"400 No se puede cerrar la caja con transacciones pendientes",
                              "500 error"}
              /\ caja'[loc[p].caja_id].estado = "ABIERTA"
              /\ caja'[loc[p].caja_id].usuario_cierre_id = NULL
      /\ Exito({"cerrar"}) => TransaccionesPendientes(loc[resp'.p].caja_id) = 0 ]_vars

\* C20 witness: a cerrar has just been refused by the pending gate and the caja with the
\* PENDIENTE transaccion is ABIERTA.
C20_Witness ==
  /\ resp.kind = "cerrar"
  /\ resp.r = "400 No se puede cerrar la caja con transacciones pendientes"
  /\ \E i \in Ids(transacciones) :
       /\ transacciones[i].estado = "PENDIENTE"
       /\ caja[transacciones[i].caja_id].estado = "ABIERTA"
       /\ caja[transacciones[i].caja_id].usuario_cierre_id = NULL

\* A transaccion whose handler is at its validations with a known divisa and a tasa
\* inside the band, so that the total is what decides.
EnValidacionDeTotal(p) ==
  /\ pc[p] = "tx_validar"
  /\ req[p].body.divisa_id \in DOMAIN divisas
  /\ ~TasaFueraDeRango(req[p].body.tipo, req[p].body.tasa, divisas[req[p].body.divisa_id])

\* The signed change of the home balance a transaccion of this tipo makes.
DeltaHome(tipo, total) == IF tipo = "COMPRA" THEN -total ELSE total

\* C21: a transaccion whose claimed total_soles is more than 0.01 away from
\* round(monto * tasa, 2) is refused ("Total soles inconsistente" when nothing earlier
\* refuses it) and changes nothing; every committed transaccion stores
\* total_soles = round(monto * tasa, 2), the value the home balance moves by, whatever
\* total within the tolerance the client claimed.
C21_TotalRecalculado ==
  [][ /\ \A p \in Procs :
           (/\ pc[p] = "tx_validar"
            /\ Abs(Round(req[p].body.monto * req[p].body.tasa, 100) - req[p].body.total_soles) > 1
            /\ pc'[p] # pc[p])
           => /\ Rechazada(p)
              /\ EnValidacionDeTotal(p)
                   => resp'.r \in {"500 Total soles inconsistente", "500 error"}
      /\ Exito({"tx"}) =>
           LET p == resp'.p
               b == req[p].body
               t == transacciones'[Len(transacciones')]
               calculado == Round(b.monto * b.tasa, 100)
           IN  /\ Len(transacciones') = Len(transacciones) + 1
               /\ t.total_soles = calculado
               /\ Abs(calculado - b.total_soles) <= 1
               /\ SaldoEn(caja_saldos', loc[p].caja_id, HOME)
                    = SaldoEn(caja_saldos, loc[p].caja_id, HOME) + DeltaHome(b.tipo, calculado) ]_vars

\* C21 witness: a transaccion has just committed whose stored total_soles is the
\* recomputed one and differs from the total its request claimed.
C21_Witness ==
  /\ resp.kind = "tx" /\ resp.r = "200"
  /\ LET t == transacciones[Len(transacciones)]
     IN  /\ t.total_soles = Round(t.monto * t.tipo_cambio, 100)
         /\ \E b \in carga.txs :
              /\ b.tipo = t.tipo /\ b.monto = t.monto /\ b.tasa = t.tipo_cambio
              /\ b.total_soles # t.total_soles
         /\ \A b \in carga.txs :
              (b.tipo = t.tipo /\ b.monto = t.monto /\ b.tasa = t.tipo_cambio)
                => b.total_soles # t.total_soles

\* The registry's reference rate for the direction of a transaccion.
TasaRef(tipo, divisa_id) ==
  IF tipo = "COMPRA" THEN divisas[divisa_id].tasa_compra ELSE divisas[divisa_id].tasa_venta

\* C22: a transaccion whose tasa is more than 0.1 away from the reference rate of its
\* direction (tasa_compra for COMPRA, tasa_venta for VENTA) is refused with "Tasa fuera
\* de rango" and changes nothing; no transaccion commits with a tasa outside that band.
C22_TasaEnRango ==
  [][ /\ \A p \in Procs :
           (/\ pc[p] = "tx_validar"
            /\ req[p].body.divisa_id \in DOMAIN divisas
            /\ Abs(req[p].body.tasa - TasaRef(req[p].body.tipo, req[p].body.divisa_id)) > 10
            /\ pc'[p] # pc[p])
           => /\ Rechazada(p)
              /\ resp'.r \in {"500 Tasa fuera de rango", "500 error"}
      /\ Exito({"tx"}) =>
           LET t == transacciones'[Len(transacciones')]
           IN  /\ Len(transacciones') = Len(transacciones) + 1
               /\ Abs(t.tipo_cambio - TasaRef(t.tipo, t.divisa_id)) <= 10 ]_vars

\* C22 witness: a transaccion has just been refused for its tasa while a caja is open.
C22_Witness ==
  /\ resp.kind = "tx" /\ resp.r = "500 Tasa fuera de rango"
  /\ \E id \in DOMAIN caja : caja[id].estado = "ABIERTA"

\* C23: a transaccion whose total_soles is above S/10,000 and that names no cliente is
\* refused ("Cliente requerido" when nothing earlier refuses it) and changes nothing:
\* the caja_saldos rows inserted on the way are rolled back with it; every committed
\* transaccion with total_soles above S/10,000 has a cliente.
C23_ClienteRequerido ==
  [][ /\ \A p \in Procs :
           (/\ pc[p] = "tx_validar"
            /\ Round(req[p].body.monto * req[p].body.tasa, 100) > 1000000
            /\ req[p].body.cliente_id = NULL
            /\ pc'[p] # pc[p])
           => /\ Rechazada(p)
              /\ (/\ EnValidacionDeTotal(p)
                  /\ Abs(Round(req[p].body.monto * req[p].body.tasa, 100)
                         - req[p].body.total_soles) <= 1)
                   => resp'.r \in {"500 Cliente requerido", "500 error"}
      /\ Exito({"tx"}) =>
           LET t == transacciones'[Len(transacciones')]
           IN  /\ Len(transacciones') = Len(transacciones) + 1
               /\ t.total_soles > 1000000 => t.cliente_id # NULL ]_vars

\* C23 witness: a transaccion has just been refused for want of a cliente on an open
\* caja that has no balance row of the traded currency, and none was left behind.
C23_Witness ==
  /\ resp.kind = "tx" /\ resp.r = "500 Cliente requerido"
  /\ \E id \in DOMAIN caja :
       /\ caja[id].estado = "ABIERTA"
       /\ Saldos(id, 2) = {}

\* Movement i of movs is a movement of this caja, direction, currency and amount.
EsMovimiento(movs, i, caja_id, tipo, divisa_id, monto) ==
  /\ movs[i].caja_id = caja_id /\ movs[i].tipo = tipo
  /\ movs[i].divisa_id = divisa_id /\ movs[i].monto = monto

C25_RechazoSinMutacion ==
  [][ /\ \A p \in Procs :
           (pc'[p] # "idle" /\ req'[p].kind = "tx")
           => /\ req'[p].body.divisa_id # 1
              /\ req'[p].body.monto > 0 /\ req'[p].body.tasa > 0
      /\ \A p \in Procs :
           (/\ pc[p] = "select" /\ req[p].kind = "tx"
            /\ CajasAbiertas(req[p].usuario_id) = {}
            /\ pc'[p] # pc[p])
           => /\ Rechazada(p)
              /\ resp'.r \in {"500 No hay caja abierta", "500 error"}
      /\ (/\ resp'.kind = "tx"
          /\ resp'.r \in {"400 Validacion fallida",
                          "400 No se pueden realizar transacciones con PEN",
                          "500 No hay caja abierta"})
           => UNCHANGED <<tablas, ws>>
      /\ Exito({"tx"}) =>
           LET t == transacciones'[Len(transacciones')]
           IN  /\ Len(transacciones') = Len(transacciones) + 1
               /\ t.divisa_id # 1 /\ t.monto > 0 /\ t.tipo_cambio > 0
               /\ caja[t.caja_id].estado = "ABIERTA" ]_vars

\* C25 witness: a transaccion has just been answered 400 by the validation of its body
\* while a caja with balances and a lot is open.
C25_Witness ==
  /\ resp.kind = "tx" /\ resp.r = "400 Validacion fallida"
  /\ \E id \in DOMAIN caja :
       /\ caja[id].estado = "ABIERTA"
       /\ Saldos(id, 2) # {}
       /\ LotesDisponibles(2, id) # {}

\* The signed delta the request of p asks for on the balance of currency d.
DeltaPedido(p, d) ==
  LET b == req[p].body
  IN  IF req[p].kind = "tx"
      THEN (IF d = HOME THEN DeltaHome(b.tipo, Round(b.monto * b.tasa, 100))
            ELSE IF d = b.divisa_id THEN (IF b.tipo = "COMPRA" THEN b.monto ELSE -b.monto)
            ELSE 0)
      ELSE IF req[p].kind = "ajustar" /\ DivisaPorCodigo(b.moneda) # {} /\ d = DivisaAjuste(b)
      THEN DeltaAjuste(b)
      ELSE 0

\* C26: no balance update is lost: whatever the interleaving of ajustar, COMPRA and
\* VENTA requests, each step changes the saldo_actual of each currency of each caja by
\* exactly the signed delta of the request that commits in it on that caja (0 for every
\* other step), so a final balance is the initial one plus the deltas of exactly the
\* committed requests.
C26_SinActualizacionPerdida ==
  [][ \A c \in DOMAIN caja, d \in DOMAIN divisas :
        SaldoEn(caja_saldos', c, d)
          = SaldoEn(caja_saldos, c, d)
            + (IF Exito({"tx", "ajustar"}) /\ loc[resp'.p].caja_id = c
               THEN DeltaPedido(resp'.p, d) ELSE 0) ]_vars

\* C26 witness: an ajuste of a balance that transacciones have moved has just committed
\* while a transaccion of the same user was waiting for the caja.
C26_Witness ==
  /\ resp.kind = "ajustar" /\ resp.r = "200"
  /\ Len(transacciones) > 0
  /\ \E q \in Procs : pc[q] = "select" /\ req[q].kind = "tx"
  /\ \E i \in Ajustes :
       movimientos_caja[i].divisa_id = transacciones[1].divisa_id

\* Everything the tables hold about caja c.
DeLaCaja(cj, cs, inv, tr, mv, c) ==
  <<cj[c], FilasDe(cs, c), FilasDe(inv, c), FilasDe(tr, c), FilasDe(mv, c)>>

\* C27: cajas are independent: a step that ends a request of one operator leaves the
\* row, balances, lots, movements, transacciones and utilidad_total of every caja of
\* every other operator as they were; a VENTA changes no lot of a caja other than the
\* one it sells from, be it of another operator or an earlier caja of the same one.
C27_CajasIndependientes ==
  [][ /\ resp'.p \in Procs =>
           \A c \in DOMAIN caja :
             caja[c].usuario_id # req[resp'.p].usuario_id
               => DeLaCaja(caja', caja_saldos', divisas_inventario', transacciones',
                           movimientos_caja', c)
                  = DeLaCaja(caja, caja_saldos, divisas_inventario, transacciones,
                             movimientos_caja, c)
      /\ resp'.p \notin Procs => UNCHANGED DB
      /\ Registra("VENTA") =>
           \A i \in Ids(divisas_inventario) :
             divisas_inventario[i].caja_id # loc[resp'.p].caja_id
               => divisas_inventario'[i] = divisas_inventario[i] ]_vars

\* C27 witness: a VENTA has just committed on a caja without lots while the caja of
\* another operator holds an available lot of the currency sold, which is intact.
C27_Witness ==
  /\ resp.kind = "tx" /\ resp.r = "200"
  /\ LET t == transacciones[Len(transacciones)]
     IN  /\ t.tipo = "VENTA"
         /\ \E i \in Ids(divisas_inventario) :
              /\ divisas_inventario[i].divisa_id = t.divisa_id
              /\ divisas_inventario[i].disponible
              /\ divisas_inventario[i].monto = 500
              /\ caja[divisas_inventario[i].caja_id].usuario_id # t.usuario_id

FilasSaldo(cs, c, d) == { i \in Ids(cs) : cs[i].caja_id = c /\ cs[i].divisa_id = d }

\* C29: a balance row that does not exist is created on first touch. A transaccion
\* inserts it as (saldo_inicial 0, saldo_actual 0) before any of its balance updates,
\* and every balance update it issues finds a row; after a committed transaccion the
\* rows of the home currency and of the traded currency exist, and a row it created
\* holds saldo_inicial 0 and the delta of the transaccion; a committed ajuste of a
\* currency without a row leaves a row with saldo_inicial 0 and the delta of the
\* ajuste; no (caja, divisa) ever has two rows.
C29_SaldoMaterializado ==
  [][ /\ \A c \in DOMAIN caja', d \in DOMAIN Registro :
           Cardinality(FilasSaldo(caja_saldos', c, d)) <= 1
      /\ \A p \in Procs : \A i \in Ids(ws'[p]) :
           LET o == ws'[p][i]
               antes == { ws'[p][j] : j \in 1..(i - 1) }
           IN  /\ (req'[p].kind = "tx" /\ o.op = "INSERT caja_saldos")
                    => /\ o.saldo_inicial = 0 /\ o.saldo_actual = 0
                       /\ FilasSaldo(caja_saldos', o.caja_id, o.divisa_id) = {}
                       /\ \A a \in antes : a.op # "UPDATE caja_saldos delta"
               /\ o.op = "UPDATE caja_saldos delta"
                    => \/ FilasSaldo(caja_saldos', o.caja_id, o.divisa_id) # {}
                       \/ \E a \in antes : /\ a.op = "INSERT caja_saldos"
                                            /\ a.caja_id = o.caja_id
                                            /\ a.divisa_id = o.divisa_id
      /\ Exito({"tx", "ajustar"}) =>
           LET p == resp'.p
               c == loc[p].caja_id
               b == req[p].body
               tocadas == IF req[p].kind = "tx" THEN {HOME, b.divisa_id}
                          ELSE { ws[p][i].row.divisa_id :
                                   i \in { j \in Ids(ws[p]) : ws[p][j].op = "INSERT movimientos_caja" } }
               delta(d) == IF req[p].kind = "ajustar" THEN DeltaAjuste(b)
                           ELSE IF d = HOME
                           THEN DeltaHome(b.tipo, Round(b.monto * b.tasa, 100))
                           ELSE IF b.tipo = "COMPRA" THEN b.monto ELSE -b.monto
           IN  \A d \in tocadas :
                 /\ FilasSaldo(caja_saldos', c, d) # {}
                 /\ FilasSaldo(caja_saldos, c, d) = {}
                      => \A i \in FilasSaldo(caja_saldos', c, d) :
                           /\ caja_saldos'[i].saldo_inicial = 0
                           /\ caja_saldos'[i].saldo_actual = delta(d) ]_vars

\* C29 witness: the first committed transaccion of a caja opened with soles only, a
\* COMPRA, has just created the USD row: saldo_inicial 0 and the amount bought.
C29_Witness ==
  /\ resp.kind = "tx" /\ resp.r = "200"
  /\ Len(transacciones) = 1 /\ transacciones[1].tipo = "COMPRA"
  /\ Ajustes = {}
  /\ \E i \in FilasSaldo(caja_saldos, transacciones[1].caja_id, transacciones[1].divisa_id) :
       /\ caja_saldos[i].saldo_inicial = 0
       /\ caja_saldos[i].saldo_actual = transacciones[1].monto

\* The committed transacciones that carry what request p asks for: same caja, operator,
\* tipo, divisa, cliente, monto and tasa.
Repetidas(p) ==
  { i \in Ids(transacciones) :
      /\ transacciones[i].caja_id = loc[p].caja_id
      /\ transacciones[i].usuario_id = req[p].usuario_id
      /\ transacciones[i].tipo = req[p].body.tipo
      /\ transacciones[i].divisa_id = req[p].body.divisa_id
      /\ transacciones[i].cliente_id = req[p].body.cliente_id
      /\ transacciones[i].monto = req[p].body.monto
      /\ transacciones[i].tipo_cambio = req[p].body.tasa }

\* C30: registering a transaccion is not idempotent. A transaccion that commits while
\* the table already holds one for the same request is a row of its own with a new id
\* (the earlier rows stay as they are), moves both balances by its deltas once more
\* and, for a COMPRA, adds a lot of its own next to the lots there were.
C30_NoIdempotente ==
  [][ (Exito({"tx"}) /\ Repetidas(resp'.p) # {}) =>
        LET p == resp'.p
            b == req[p].body
            c == loc[p].caja_id
            total == Round(b.monto * b.tasa, 100)
        IN  /\ Len(transacciones') = Len(transacciones) + 1
            /\ \A i \in Ids(transacciones) : transacciones'[i] = transacciones[i]
            /\ transacciones'[Len(transacciones')].monto = b.monto
            /\ SaldoEn(caja_saldos', c, HOME)
                 = SaldoEn(caja_saldos, c, HOME) + DeltaHome(b.tipo, total)
            /\ SaldoEn(caja_saldos', c, b.divisa_id)
                 = SaldoEn(caja_saldos, c, b.divisa_id)
                   + (IF b.tipo = "COMPRA" THEN b.monto ELSE -b.monto)
            /\ b.tipo = "COMPRA" =>
                 /\ Len(divisas_inventario') = Len(divisas_inventario) + 1
                 /\ \A i \in Ids(divisas_inventario) :
                      divisas_inventario'[i] = divisas_inventario[i]
                 /\ divisas_inventario'[Len(divisas_inventario')].monto = b.monto
                 /\ divisas_inventario'[Len(divisas_inventario')].caja_id = c ]_vars

\* C30 witness: the same COMPRA has just committed for the second time on an open caja:
\* two equal transacciones, two equal lots, and the USD bought twice in the balance.
C30_Witness ==
  /\ resp.kind = "tx" /\ resp.r = "200"
  /\ Len(transacciones) = 2 /\ transacciones[1] = transacciones[2]
  /\ transacciones[1].tipo = "COMPRA"
  /\ caja[transacciones[1].caja_id].estado = "ABIERTA"
  /\ Len(divisas_inventario) = 2 /\ divisas_inventario[1] = divisas_inventario[2]
  /\ SaldoEn(caja_saldos, transacciones[1].caja_id, transacciones[1].divisa_id)
       = 2 * transacciones[1].monto

\* The caja rows the locking read of request p asks for.
FilasPedidas(p) ==
  IF req[p].kind = "abrir" THEN CajasAbiertas(req[p].usuario_id)
  ELSE CajaAbierta(req[p].usuario_id)

\* The next statement of request p waits for a lock that connection q holds: the
\* locking read for a caja row or an uncommitted caja of q, the INSERT of abrir for
\* the gap that q's locking read locked.
EsperaA(p, q) ==
  \/ /\ pc[p] = "select" /\ req[p].kind \in {"abrir", "tx", "ajustar", "cerrar"}
     /\ \/ bloqueo[q] \cap FilasPedidas(p) # {}
        \/ q \in Insertando(req[p].usuario_id)
  \/ /\ pc[p] = "abrir_insert"
     /\ -req[p].usuario_id \in bloqueo[q]

\* C31: no set of concurrent requests deadlocks on the locks of the caja: there is
\* never a pair of requests each of which waits for a lock the other holds (such a
\* pair does not end by itself: only the database server, by choosing a deadlock
\* victim or by its lock wait timeout, ends it, with a 500 for the request it fails).
C31_SinEsperaCircular ==
  \A p, q \in Procs : p # q => ~(EsperaA(p, q) /\ EsperaA(q, p))

\* The id the registry gives a codigo (ids are never reused), 0 when it has none.
IdDeCodigo(codigo) ==
  IF \E d \in DOMAIN Registro : Registro[d].codigo = codigo
  THEN CHOOSE d \in DOMAIN Registro : Registro[d].codigo = codigo
  ELSE 0

\* C32: a successful abrir creates, for each codigo of saldos that the registry knows,
\* one balance row of the new caja with saldo_inicial = saldo_actual = the amount
\* supplied, and no other row; no step of any request changes the saldo_inicial of a
\* row there is, and every row created after the opening has saldo_inicial 0.
C32_SaldoInicial ==
  [][ /\ Exito({"abrir"}) =>
           LET p == resp'.p
               c == loc[p].caja_id
               saldos == req[p].body.saldos
               filas == { i \in Ids(caja_saldos') : caja_saldos'[i].caja_id = c }
           IN  /\ \A k \in Ids(saldos) :
                    (IdDeCodigo(saldos[k][1]) \in DOMAIN divisas')
                      => \E i \in filas :
                           /\ caja_saldos'[i].divisa_id = IdDeCodigo(saldos[k][1])
                           /\ caja_saldos'[i].saldo_inicial = saldos[k][2]
                           /\ caja_saldos'[i].saldo_actual = saldos[k][2]
               /\ \A i \in filas :
                    \E k \in Ids(saldos) :
                      /\ caja_saldos'[i].divisa_id = IdDeCodigo(saldos[k][1])
                      /\ caja_saldos'[i].saldo_inicial = saldos[k][2]
                      /\ caja_saldos'[i].saldo_actual = saldos[k][2]
               /\ Cardinality(filas) <= Len(saldos)
      /\ Len(caja_saldos') >= Len(caja_saldos)
      /\ \A i \in Ids(caja_saldos) :
           /\ caja_saldos'[i].saldo_inicial = caja_saldos[i].saldo_inicial
           /\ caja_saldos'[i].caja_id = caja_saldos[i].caja_id
           /\ caja_saldos'[i].divisa_id = caja_saldos[i].divisa_id
      /\ ~Exito({"abrir"}) =>
           \A i \in Ids(caja_saldos') \ Ids(caja_saldos) : caja_saldos'[i].saldo_inicial = 0 ]_vars

\* C32 witness: on a caja opened with S/1,000.00 an ajuste created the USD row and a
\* COMPRA has just moved both balances: the row of the opening still opens at the
\* amount supplied and the row created later still opens at 0.
C32_Witness ==
  /\ resp.kind = "tx" /\ resp.r = "200"
  /\ Ajustes # {}
  /\ \E i, j \in Ids(caja_saldos) :
       /\ caja_saldos[i].caja_id = caja_saldos[j].caja_id
       /\ caja_saldos[i].divisa_id = HOME
       /\ caja_saldos[i].saldo_inicial = 100000 /\ caja_saldos[i].saldo_actual < 100000
       /\ caja_saldos[j].divisa_id = transacciones[Len(transacciones)].divisa_id
       /\ caja_saldos[j].saldo_inicial = 0
       /\ caja_saldos[j].saldo_actual > transacciones[Len(transacciones)].monto

\* C33: movements and transacciones are append-only: every step of every request
\* leaves each row of transacciones and of movimientos_caja as it was, at its place,
\* and only adds rows after them; so the log and the transacciones of each caja only
\* grow.
C33_SoloAnexar ==
  [][ /\ Len(transacciones') >= Len(transacciones)
      /\ \A i \in Ids(transacciones) : transacciones'[i] = transacciones[i]
      /\ Len(movimientos_caja') >= Len(movimientos_caja)
      /\ \A i \in Ids(movimientos_caja) : movimientos_caja'[i] = movimientos_caja[i]
      /\ \A c \in DOMAIN caja :
           /\ Len(FilasDe(transacciones', c)) >= Len(FilasDe(transacciones, c))
           /\ Len(FilasDe(movimientos_caja', c)) >= Len(FilasDe(movimientos_caja, c)) ]_vars

\* C33 witness: a caja with the movement of its opening, a transaccion with its
\* movements and an ajuste has just been closed, and all of them are still there.
C33_Witness ==
  /\ resp.kind = "cerrar" /\ resp.r = "ninguna"
  /\ Len(transacciones) >= 1
  /\ Ajustes # {}
  /\ \E i \in Ids(movimientos_caja) : movimientos_caja[i].tipo = "AJUSTE"
  /\ \A i \in Ids(movimientos_caja) : caja[movimientos_caja[i].caja_id].estado = "CERRADA"

\* C34: a close changes only the caller's own open caja. Every step that changes the
\* estado or the closing stamps of a caja is the commit of a cerrar of the operator
\* who owns it: the caja was ABIERTA and becomes CERRADA with fecha_cierre and
\* usuario_cierre_id = the caller, its other columns, every other caja, and all
\* balances, lots, transacciones and movements stay as they were; a cerrar that ends
\* creates no caja and changes nothing else either.
C34_CierreSoloLaCaja ==
  [][ /\ \A c \in DOMAIN caja :
           (\/ caja'[c].estado # caja[c].estado
            \/ caja'[c].usuario_cierre_id # caja[c].usuario_cierre_id
            \/ caja'[c].fecha_cierre # caja[c].fecha_cierre)
             => /\ resp'.p \in Procs
                /\ req[resp'.p].kind = "cerrar"
                /\ loc[resp'.p].caja_id = c
                /\ caja[c].usuario_id = req[resp'.p].usuario_id
                /\ caja[c].estado = "ABIERTA"
                /\ caja'[c] = [caja[c] EXCEPT !.estado = "CERRADA",
                                              !.usuario_cierre_id = Some(req[resp'.p].usuario_id),
                                              !.fecha_cierre = Some("NOW()")]
                /\ \A d \in DOMAIN caja \ {c} : caja'[d] = caja[d]
      /\ (resp'.kind = "cerrar" /\ pc'[resp'.p] = "idle")
           => /\ DOMAIN caja' = DOMAIN caja
              /\ \A c \in DOMAIN caja : caja'[c].utilidad_total = caja[c].utilidad_total
              /\ UNCHANGED <<caja_saldos, divisas_inventario, transacciones, movimientos_caja>> ]_vars

\* C34 witness: a caja that has bought and sold at a profit has just been closed by its
\* operator: CERRADA, stamped, with its utilidad_total and its rows in place, while the
\* caja of another operator is open.
C34_Witness ==
  /\ resp.kind = "cerrar" /\ resp.r = "ninguna"
  /\ \E c \in DOMAIN caja :
       /\ caja[c].estado = "CERRADA"
       /\ caja[c].usuario_cierre_id = Some(caja[c].usuario_id)
       /\ caja[c].fecha_cierre # NULL
       /\ caja[c].utilidad_total # 0
       /\ \E i \in Ids(transacciones) :
            transacciones[i].caja_id = c /\ transacciones[i].tipo = "VENTA"
       /\ \E i \in Ids(divisas_inventario) : divisas_inventario[i].caja_id = c
       /\ \E d \in DOMAIN caja :
            caja[d].usuario_id # caja[c].usuario_id /\ caja[d].estado = "ABIERTA"

\* C36: cerrar sends its success response only for a close that is committed: when a
\* cerrar that has written its response (the PDF) ends, its caja is CERRADA in the
\* database.
C36_PdfSoloSiCerrada ==
  [][ \A p \in Procs :
        (PdfEnviado(p) /\ pc'[p] = "idle") => caja'[loc[p].caja_id].estado = "CERRADA" ]_vars

\* C35: an INGRESO on an open caja is never refused for lack of funds, whatever the
\* balance of its currency, negative ones included: the step of an ajuste INGRESO that
\* has read the balance does not answer "saldo negativo", and a committed INGRESO
\* raises the balance by its monto.
C35_IngresoNuncaSinFondos ==
  [][ /\ \A p \in Procs :
           (/\ pc[p] = "ajustar_aplicar" /\ req[p].body.tipo = "INGRESO"
            /\ req[p].body.monto > 0
            /\ pc'[p] # pc[p])
           => resp'.r # "400 El ajuste resultaria en saldo negativo"
      /\ (Exito({"ajustar"}) /\ req[resp'.p].body.tipo = "INGRESO")
           => SaldoEn(caja_saldos', loc[resp'.p].caja_id, IdDeCodigo(req[resp'.p].body.moneda))
              = SaldoEn(caja_saldos, loc[resp'.p].caja_id, IdDeCodigo(req[resp'.p].body.moneda))
                + req[resp'.p].body.monto ]_vars

\* C37: every request that has taken a pooled connection and begun a DB transaction
\* (abrir, ajustar, cerrar, transacciones, and POST, PUT and DELETE of divisas) ends
\* with a commit, which applies exactly its statements, or with a rollback, which
\* leaves the tables as they were, and with the release: no statement and no lock of
\* it is left, and a connection at rest has neither.
Termina(p) == pc[p] # "idle" /\ pc'[p] = "idle"

C38_QuedaUnAdmin == Admins # {}

\* C39: GET /api/caja/utilidad with incluirCerradas absent or given as 'false' answers
\* the utilidad_total of the operator's open caja only (0 when there is none): the
\* profit of the closed cajas is not in the sum.
C39_SoloCajaAbierta ==
  (resp.kind = "utilidad" /\ resp.r = "200" /\ resp.incluirCerradas \in {NULL, Some("false")})
    => resp.utilidad = SumUtilidadTotal(CajasAbiertas(resp.usuario_id))

\* C40: through abrirCaja and cerrarCaja of the controller at most one caja is ABIERTA
\* in every reachable state, also when two abrirCaja run at once, and a caja is
\* created with its initial balances equal to its balances.
C40_UnaSolaAbierta ==
  /\ Cardinality({ c \in DOMAIN caja : caja[c].estado = "ABIERTA" }) <= 1
  /\ \A c \in DOMAIN caja :
       <<caja[c].saldo_soles_inicial, caja[c].saldo_dolares_inicial, caja[c].saldo_euros_inicial>>
       = <<caja[c].saldo_soles, caja[c].saldo_dolares, caja[c].saldo_euros>>
====
